---- MODULE Spec2Model ----
(***************************************************************************)
(* BotController (apps/admin-server/src/bot/botController.ts): the session *)
(* supervisor.  One step of the model is one run-to-completion segment of  *)
(* JavaScript: the code between two awaits of an async function, or one    *)
(* event callback.  Collaborators (network.js, logBuffer, configStore ...) *)
(* are opaque: a call to one returns or throws, a promise of one resolves  *)
(* or rejects, and it settles in an event-loop task of its own (I/O), so   *)
(* the continuation of an await on it never runs between two microtasks of *)
(* another async function.                                                 *)
(***************************************************************************)
EXTENDS Integers, Sequences, FiniteSets, TLC

\* ---- bounds -------------------------------------------------------------
MaxCalls == 2        \* start()/stop() calls issued by administrative callers
MaxDeliveries == 2   \* session events that reach onBotLog or the ws close handler
MaxAlertCalls == 2   \* sendSmtpAlert calls
MaxObjects == 4      \* status objects allocated (by the controller and by getStatus)
MaxRedeliveries == 1 \* visit events botEvents delivers a second time
MaxMtime == 1        \* modification timestamps a source file is seen with (0: stat failed)
MaxSessions == 2     \* start() calls whose statements are followed one by one
MaxPolls == 2        \* ticks of the user poll timer
MaxRawItems == 3      \* entries of one bag reply
MaxRenders == 3       \* renders of the component with a changed token (the mount is one)
MaxSockets == 3       \* WebSockets the hook constructs
MaxTimers == 2        \* reconnect timeouts the hook sets
MaxIndexCalls == 3   \* getBagIndex calls

\* ---- constants of the program ---------------------------------------------
VisitCap == 400      \* appendVisitRecord: list.length > 400 ? list.slice(list.length - 400) : list

\* ---- vocabulary ---------------------------------------------------------
Cats == {"ws400", "patrol", "kickout"}
Kinds == {"start", "stop"}
AllClear == [c \in Cats |-> FALSE]

VARIABLES
    ops,                 \* every call chained by runExclusive, in submission order
    lifecycle,           \* this.lifecycle: index of the call whose promise it follows, 0 = Promise.resolve()
    apiCalls,            \* number of start()/stop() calls issued by callers so far
    running,             \* this.status.running
    connected,           \* this.status.connected
    lastError,           \* this.status.lastError ("none" = undefined)
    logListeners,        \* listeners of botEvents "log" (the onBotLog closure of a start call)
    visitListeners,      \* listeners of botEvents "visit"
    unsubscribeBotLog,   \* 0 = null, else the start call whose onBotLog it removes
    unsubscribeBotVisit,
    userPollTimer,       \* 0 = null, else the session whose login callback scheduled it
    stopFn,              \* 0 = null, else the start call that installed it
    latch,               \* fatalWs400Triggered, patrolDisconnectTriggered, kickoutTriggered
    epoch,               \* the start call that last reset the latches (0 = construction)
    handlers             \* every onBotLog / ws-close handling begun, in delivery order

\* sendSmtpAlert (one call at a time is followed)
VARIABLES
    smtp,                \* config.smtp as the call in flight read it from configStore.getSecret()
    alertPc,             \* where the call is
    attempts,            \* transporter.sendMail calls the call in flight has made
    alertCalls           \* sendSmtpAlert calls made so far

\* this.status as an object on the heap, and the objects getStatus returned
VARIABLES
    objects,             \* every BotStatus object allocated so far, by reference (index)
    statusObj,           \* this.status: the reference the controller holds
    snapshots            \* the references getStatus() has returned to callers

\* this.status.visits, and the "visit" events botEvents has emitted
VARIABLES
    visits,              \* this.status.visits.items
    emitted,             \* distinct visit events emitted so far (event n carries ts = n)
    redelivered          \* events emitted a second time so far

\* getBagIndex and the three source files it reads
VARIABLES
    mtime,               \* fs.statSync(path).mtimeMs of Plant.json, the shop export and goods.txt now
    bagIndex,            \* this.bagIndex: 0 = null, else the n-th index object built
    bagIndexMeta,        \* this.bagIndexMeta: the cache key
    built,               \* index objects built so far
    returned,            \* the object the latest getBagIndex call returned (0: no call yet)
    indexCalls           \* getBagIndex calls so far

\* computeExpProgress: its inputs and what it returned
VARIABLES
    roleLevels,          \* the array RoleLevel.json fills (<< >>: the file lists no level)
    starts,              \* getLevelExpStarts(): starts[L] for L in 1..maxLevel+1 (index 0 is never read), << >> = null
    level,               \* the level reported for the user
    totalExp,            \* the user's total experience
    expPc,               \* "input": not called yet, "computed": expProgress holds the result
    expProgress          \* the value computeExpProgress returned

\* refreshBagView: the classification of one entry of the bag reply
VARIABLES
    index,               \* getBagIndex(): seedPriceBySeedId and fruitByFruitId (Maps: functions on their keys)
    entryId,             \* the id of the entry
    entryPc,             \* "input": not mapped yet, "mapped": bagItem holds the result
    bagItem              \* the item the entry is mapped to: its kind and unitPriceGold

\* ConfigStore, its onAfterSet hook and applyRuntimeConfig
VARIABLES
    file,                \* the document in config.json
    cfgPc,               \* where the one followed call of set() / applyRuntimeConfig is
    next,                \* the argument of set()
    applied,             \* the configuration applyRuntimeConfig received last
    botConfig,           \* the farming fields of the bot's CONFIG object
    session,             \* running, friendControl set, friendFarmEnabled, friend loop active
    cfgLog,              \* what the last applyRuntimeConfig appended to the log buffer
    got                  \* what the one followed call of get() or set() returned

\* the tick timer, refreshBagView and the statements of stopInternal
VARIABLES
    call,                \* the start()/stop() body executing: its kind and where it is
    sessionNo,           \* sessions opened so far; the newest has this number
    loginPc,             \* per session, where its login callback is
    fetches,             \* the getBag() calls not settled yet: the session of each one's refresh
    bagPollInFlight,     \* this.bagPollInFlight
    bag,                 \* status.bag: 0 = null, else the session whose refresh wrote it
    fetched,             \* how the last settled getBag() ended
    polls                \* executions of poll() by the tick timer

\* refreshBagView as a whole and the bag page of the web client
VARIABLES
    rawItems,            \* warehouseMod.getBagItems(bagReply): entries with id and count
    bagItems,            \* status.bag.items as refreshBagView wrote it
    pageSort,            \* sortKey and sortDir of the bag page
    pageList,            \* the list the bag page renders (useMemo)
    viewPc               \* "input", "refreshed" (status.bag written), "rendered"

\* useAdminWs (apps/admin-web/src/lib/ws.ts)
VARIABLES
    wsUrl,               \* the url of the last render: 0 = null, else the token it carries
    effect,              \* "none", "idle" (the effect ran with a null url), "live" (a cleanup is registered)
    wsUrlRef,            \* wsUrlRef.current
    closingRef,          \* closingRef.current
    wsRef,               \* wsRef.current: 0 = null, else the index of a socket
    sockets,             \* every WebSocket the hook has constructed: its readyState
    reconnectTimerRef,   \* reconnectTimerRef.current: 0 = null, else a timer id
    timers,              \* the timeouts set and neither fired nor cleared
    timerCount,          \* timeouts set so far
    renders              \* renders with a changed token so far

\* the lifecycle state of the controller
ctlVars == <<ops, lifecycle, apiCalls, running, connected, lastError, logListeners,
             visitListeners, unsubscribeBotLog, unsubscribeBotVisit, userPollTimer,
             stopFn, latch, epoch, handlers>>
alertVars == <<smtp, alertPc, attempts, alertCalls>>
heapVars == <<objects, statusObj, snapshots>>
visitVars == <<visits, emitted, redelivered>>
bagVars == <<mtime, bagIndex, bagIndexMeta, built, returned, indexCalls>>
expVars == <<roleLevels, starts, level, totalExp, expPc, expProgress>>
entryVars == <<index, entryId, entryPc, bagItem>>
cfgVars == <<file, cfgPc, next, applied, botConfig, session, cfgLog, got>>
tickVars == <<call, sessionNo, loginPc, fetches, bagPollInFlight, bag, fetched, polls>>
viewVars == <<rawItems, bagItems, pageSort, pageList, viewPc>>
wsVars == <<wsUrl, effect, wsUrlRef, closingRef, wsRef, sockets, reconnectTimerRef,
            timers, timerCount, renders>>

\* what the lifecycle steps leave alone
sideVars == <<alertVars, heapVars, visitVars, bagVars, expVars, entryVars, cfgVars, tickVars,
              viewVars, wsVars>>

vars == <<ctlVars, sideVars>>

\* what the steps of sendSmtpAlert leave alone
alertFrame == <<ctlVars, heapVars, visitVars, bagVars, expVars, entryVars, cfgVars, tickVars,
              viewVars, wsVars>>

\* what getStatus and the writes to status objects leave alone
heapFrame == <<ctlVars, alertVars, visitVars, bagVars, expVars, entryVars, cfgVars, tickVars,
              viewVars, wsVars>>

\* what onBotVisit leaves alone
visitFrame == <<ctlVars, alertVars, heapVars, bagVars, expVars, entryVars, cfgVars, tickVars,
              viewVars, wsVars>>

\* what getBagIndex and the changes of its source files leave alone
bagFrame == <<ctlVars, alertVars, heapVars, visitVars, expVars, entryVars, cfgVars, tickVars,
              viewVars, wsVars>>

\* what computeExpProgress leaves alone
expFrame == <<ctlVars, alertVars, heapVars, visitVars, bagVars, entryVars, cfgVars, tickVars,
              viewVars, wsVars>>

\* what the mapping of a bag entry leaves alone
entryFrame == <<ctlVars, alertVars, heapVars, visitVars, bagVars, expVars, cfgVars, tickVars,
              viewVars, wsVars>>

\* what the configuration store and applyRuntimeConfig leave alone
cfgFrame == <<ctlVars, alertVars, heapVars, visitVars, bagVars, expVars, entryVars, tickVars, viewVars, wsVars>>

\* what the tick timer, refreshBagView and the statements of stopInternal leave alone
tickFrame == <<ops, lifecycle, apiCalls, lastError, latch, epoch, handlers,
               alertVars, heapVars, visitVars, bagVars, expVars, entryVars, cfgVars, viewVars, wsVars>>

\* what refreshBagView's mapping and the bag page leave alone
viewFrame == <<ctlVars, alertVars, heapVars, visitVars, bagVars, expVars, entryVars, cfgVars,
               tickVars, wsVars>>

\* what the admin WebSocket hook leaves alone
wsFrame == <<ctlVars, alertVars, heapVars, visitVars, bagVars, expVars, entryVars, cfgVars,
             tickVars, viewVars>>

statusVars == <<running, connected, lastError>>
subVars == <<logListeners, visitListeners, unsubscribeBotLog, unsubscribeBotVisit>>

\* ---- the continuation chain --------------------------------------------
Settled(o) == o.pc \in {"resolved", "rejected"}
Executing(o) == o.pc \in {"stopAwait", "startStopAwait", "config", "proto"}

\* a call as runExclusive chains it: conn and login describe the Session a start
\* call opens, threw whether the stopFn its stopInternal has just called threw
NewOp(kind, pred) ==
    [kind |-> kind, pred |-> pred, pc |-> "pending",
     conn |-> "none", login |-> "no", threw |-> FALSE]

\* the promise fn is chained on: lifecycle.then(fn, fn)
ChainPredUnserialized == IF ops = << >> THEN lifecycle ELSE 0
ChainPred == lifecycle

\* then(fn, fn) runs fn once the promise it is chained on has settled either way
PredSettledEager(p) == TRUE
PredSettledOnlyFulfilled(p) == IF p = 0 THEN TRUE ELSE ops[p].pc = "resolved"
PredSettled(p) == IF p = 0 THEN TRUE ELSE Settled(ops[p])

Ready(i) == ops[i].pc = "pending" /\ PredSettled(ops[i].pred)

\* a microtask is queued: the continuation of `await this.stopFn?.()` (stopFn has
\* no await of its own) or the body of a chained call whose predecessor settled.
\* Timer and socket callbacks are macrotasks and run only when none is queued.
MicrotaskQueued ==
    \E i \in DOMAIN ops : ops[i].pc \in {"stopAwait", "startStopAwait"} \/ Ready(i)
Macrotask == ~MicrotaskQueued

CtlInit ==
    /\ ops = << >>
    /\ lifecycle = 0
    /\ apiCalls = 0
    /\ running = FALSE
    /\ connected = FALSE
    /\ lastError = "none"
    /\ logListeners = {}
    /\ visitListeners = {}
    /\ unsubscribeBotLog = 0
    /\ unsubscribeBotVisit = 0
    /\ userPollTimer = 0
    /\ stopFn = 0
    /\ latch = AllClear
    /\ epoch = 0
    /\ handlers = << >>

\* config.smtp is optional (defined = FALSE: undefined), and so is each of its
\* fields but enabled ("" = undefined or empty, 0 = undefined or zero)
NoSmtp ==
    [defined |-> FALSE, enabled |-> FALSE, host |-> "", port |-> 0,
     from |-> "", to |-> "", user |-> "", pass |-> ""]

AlertIdle ==
    /\ smtp = NoSmtp
    /\ alertPc = "idle"
    /\ attempts = 0
    /\ alertCalls = 0

\* private status: BotStatus = { running: false, connected: false, ... }
\* (two of the top-level fields are followed)
StatusFields == {"running", "lastError"}
FieldValues(f) == IF f = "running" THEN BOOLEAN ELSE {"none", "error"}
InitialStatus == [running |-> FALSE, lastError |-> "none"]

HeapIdle ==
    /\ objects = <<InitialStatus>>
    /\ statusObj = 1
    /\ snapshots = {}

VisitIdle ==
    /\ visits = << >>
    /\ emitted = 0
    /\ redelivered = 0

\* the three source files, and the cache key made of their timestamps
\* (defined = FALSE: bagIndexMeta is null)
SourceFiles == {"plantMtimeMs", "shopMtimeMs", "goodsMtimeMs"}
NoMeta == [defined |-> FALSE, plantMtimeMs |-> 0, shopMtimeMs |-> 0, goodsMtimeMs |-> 0]

BagIdle ==
    /\ mtime \in [SourceFiles -> 0..MaxMtime]
    /\ bagIndex = 0
    /\ bagIndexMeta = NoMeta
    /\ built = 0
    /\ returned = 0
    /\ indexCalls = 0

\* the files as the controller is constructed (none of them read yet)
BagUnread ==
    /\ mtime = [f \in SourceFiles |-> 0]
    /\ bagIndex = 0
    /\ bagIndexMeta = NoMeta
    /\ built = 0
    /\ returned = 0
    /\ indexCalls = 0

\* an entry of the level table that RoleLevel.json did not set:
\* new Array(maxLevel + 2).fill(NaN)
NaN == -1
\* return null
NullProgress == [null |-> TRUE, current |-> 0, needed |-> 0]
\* the table of RoleLevel.json with levels 1..5 at 0, 100, 250, 500, 900
\* (its last entry, maxLevel + 1, is never set)
ExampleStarts == <<0, 100, 250, 500, 900, NaN>>

ExpIdle ==
    /\ roleLevels = ExampleStarts
    /\ starts = ExampleStarts
    /\ level = 1
    /\ totalExp = 0
    /\ expPc = "input"
    /\ expProgress = NullProgress

\* unitPriceGold: null, or a price counted in 1/10000 gold
Unpriced == [priced |-> FALSE, e4 |-> 0]

EntryIdle ==
    /\ index = [seedPrice |-> << >>, fruit |-> << >>]
    /\ entryId = 1001
    /\ entryPc = "input"
    /\ bagItem = [kind |-> "gold", unit |-> Unpriced]

\* toStored(raw) === null; also: get() was not called
NullDoc == [null |-> TRUE]

\* farming: undefined (fixedSeedId 0: undefined)
NoFarming == [defined |-> FALSE, forceLowestLevelCrop |-> FALSE, fixedSeedId |-> 0]

\* the fallback document of get() / getSecret() (automation and ui are not followed)
Fallback ==
    [platform |-> "qq",
     selfIntervalSecMin |-> 10, selfIntervalSecMax |-> 10,
     friendIntervalSecMin |-> 1, friendIntervalSecMax |-> 1,
     farming |-> [defined |-> TRUE, forceLowestLevelCrop |-> FALSE, fixedSeedId |-> 0],
     smtp |-> NoSmtp]

\* private friendControl = null; private friendFarmEnabled = true;
StoppedSession ==
    [running |-> FALSE, friendControl |-> FALSE, friendFarmEnabled |-> TRUE, friendLoop |-> FALSE]

CfgIdle ==
    /\ file = Fallback
    /\ cfgPc = "idle"
    /\ next = Fallback
    /\ applied = [autoFriendFarm |-> TRUE, farming |-> NoFarming]
    /\ botConfig = [forceLowestLevelCrop |-> FALSE, forceLatestLevelCrop |-> FALSE, fixedSeedId |-> 0]
    /\ session = StoppedSession
    /\ cfgLog = << >>
    /\ got = NullDoc

\* no call executing; private bagPollInFlight = false; bag: null
NoCall == [kind |-> "none", pc |-> "idle", at |-> 0]
TickIdle ==
    /\ call = NoCall
    /\ sessionNo = 0
    /\ loginPc = << >>
    /\ fetches = << >>
    /\ bagPollInFlight = FALSE
    /\ bag = 0
    /\ fetched = "none"
    /\ polls = 0

\* no bag fetched, nothing rendered
ViewIdle ==
    /\ rawItems = << >>
    /\ bagItems = << >>
    /\ pageSort = [key |-> "totalGold", dir |-> "desc"]
    /\ pageList = << >>
    /\ viewPc = "input"

\* the component using the hook is not mounted yet
WsIdle ==
    /\ wsUrl = 0
    /\ effect = "none"
    /\ wsUrlRef = 0
    /\ closingRef = FALSE
    /\ wsRef = 0
    /\ sockets = << >>
    /\ reconnectTimerRef = 0
    /\ timers = {}
    /\ timerCount = 0
    /\ renders = 0

\* everything but the lifecycle state as the controller is constructed
SideIdle ==
    AlertIdle /\ HeapIdle /\ VisitIdle /\ BagUnread /\ ExpIdle /\ EntryIdle /\ CfgIdle /\ TickIdle /\ ViewIdle /\ WsIdle

Init == CtlInit /\ SideIdle

\* start(input) / stop() called by an administrative caller: runExclusive runs
\* synchronously, the body later
Submit(kind) ==
    /\ apiCalls < MaxCalls
    /\ apiCalls' = apiCalls + 1
    /\ ops' = Append(ops, NewOp(kind, ChainPred))
    /\ lifecycle' = Len(ops) + 1
    /\ UNCHANGED <<statusVars, subVars, userPollTimer, stopFn, latch, epoch, handlers, sideVars>>

\* ---- stopInternal / stopFn ---------------------------------------------
\* how the synchronous body of stopFn ends: every step returned, or one of them
\* threw and the steps after it (networkMod.cleanup(), getWs()?.close()) were skipped
TeardownOutcomes == {"ok", "throw"}

\* the login callback of a connection that is no longer open is never invoked
loginAfter(l, c) == IF c # "open" /\ l = "no" THEN "done" ELSE l

\* networkMod.cleanup(); networkMod.getWs()?.close() on a connection in state c
stopFnConn(c, o) ==
    IF o = "throw" THEN c ELSE IF c = "open" THEN "closing" ELSE c

\* stopFn's `catch { return; }`: does a throw of a teardown step reject stopFn()
TeardownRejectsUncaught(threw) == threw
TeardownRejects(threw) == FALSE

\* this.unsubscribeBotLog?.() / this.unsubscribeBotVisit?.(): botEvents.off
unsubscribeNone(listeners, u) == listeners \ {}
unsubscribe(listeners, u) == listeners \ {u}

\* if (this.userPollTimer) clearInterval(this.userPollTimer); this.userPollTimer = null
clearUserPollTimerKept == userPollTimer
clearUserPollTimer == 0

\* stopInternal up to and including the call of stopFn (the await suspends after
\* stopFn's body has run); pc is where call i waits next
stopInternalBegin(i, o, pc) ==
    /\ running' = FALSE
    /\ connected' = FALSE
    /\ logListeners' = unsubscribe(logListeners, unsubscribeBotLog)
    /\ unsubscribeBotLog' = 0
    /\ visitListeners' = unsubscribe(visitListeners, unsubscribeBotVisit)
    /\ unsubscribeBotVisit' = 0
    /\ userPollTimer' = clearUserPollTimer
    /\ IF stopFn = 0
         THEN /\ o = "ok"
              /\ ops' = [ops EXCEPT ![i].pc = pc]
         ELSE ops' = [ops EXCEPT ![i].pc = pc, ![i].threw = (o # "ok"),
                                 ![stopFn].conn = stopFnConn(@, o),
                                 ![stopFn].login = loginAfter(@, stopFnConn(ops[stopFn].conn, o))]
    /\ UNCHANGED <<lifecycle, apiCalls, lastError, stopFn, latch, epoch, handlers, sideVars>>

\* the body chained by runExclusive starts: stop() -> stopInternal,
\* start() -> startInternal, whose first statement is `await this.stopInternal()`
Begin(i) ==
    /\ Ready(i)
    /\ \E o \in TeardownOutcomes :
         stopInternalBegin(i, o, IF ops[i].kind = "stop" THEN "stopAwait" ELSE "startStopAwait")

\* stopInternal after `await this.stopFn?.()`: this.stopFn = null (friendControl
\* and status.bag are cleared here too); stop() resolves
StopFinish(i) ==
    /\ ops[i].pc = "stopAwait"
    /\ IF TeardownRejects(ops[i].threw)
         THEN /\ ops' = [ops EXCEPT ![i].pc = "rejected", ![i].threw = FALSE]
              /\ UNCHANGED stopFn
         ELSE /\ ops' = [ops EXCEPT ![i].pc = "resolved", ![i].threw = FALSE]
              /\ stopFn' = 0
    /\ UNCHANGED <<lifecycle, apiCalls, statusVars, subVars, userPollTimer, latch, epoch, handlers, sideVars>>

\* ---- startInternal ------------------------------------------------------
\* this.fatalWs400Triggered = false; this.patrolDisconnectTriggered = false;
\* this.kickoutTriggered = false
resetLatchesKept == latch
resetLatches == AllClear

\* startInternal from the end of its stopInternal to `await this.configStore.get()`
StartResume(i) ==
    /\ ops[i].pc = "startStopAwait"
    /\ IF TeardownRejects(ops[i].threw)
         THEN /\ ops' = [ops EXCEPT ![i].pc = "rejected", ![i].threw = FALSE]
              /\ UNCHANGED <<stopFn, latch, epoch>>
         ELSE /\ ops' = [ops EXCEPT ![i].pc = "config", ![i].threw = FALSE]
              /\ stopFn' = 0
              /\ latch' = resetLatches
              /\ epoch' = i
    /\ UNCHANGED <<lifecycle, apiCalls, statusVars, subVars, userPollTimer, handlers, sideVars>>

\* configStore.get() settled (a rejection is ignored by the try/catch), then
\* `await protoMod.loadProto()`
ConfigGot(i) ==
    /\ Macrotask
    /\ ops[i].pc = "config"
    /\ ops' = [ops EXCEPT ![i].pc = "proto"]
    /\ UNCHANGED <<lifecycle, apiCalls, statusVars, subVars, userPollTimer, stopFn, latch, epoch, handlers, sideVars>>

\* how startInternal ends after loadProto: loadProto rejected; or the synchronous
\* block 714-880 ran to its end; or a collaborator call in it threw before
\* networkMod.connect had opened the connection (initStatusBar, emitRuntimeHint,
\* connect itself) or after (connect's tail, getWs, ws.on)
StartOutcomes == {"ok", "loadProtoRejects", "throwAtConnect", "throwAfterConnect"}

\* does the block reach `this.stopFn = async () => ...` (line 867)
installsStopFn(o) == o = "ok"

ProtoLoaded(i, o) ==
    /\ Macrotask
    /\ ops[i].pc = "proto"
    /\ IF o = "loadProtoRejects"
         THEN /\ ops' = [ops EXCEPT ![i].pc = "rejected"]
              /\ UNCHANGED <<statusVars, subVars, stopFn>>
         ELSE \* this.status = { running: true, connected: false, ... } (no lastError)
              /\ running' = TRUE
              /\ connected' = FALSE
              /\ lastError' = "none"
              \* removeAllListeners("log"/"visit"); on("log", onBotLog); on("visit", onBotVisit)
              /\ logListeners' = {i}
              /\ unsubscribeBotLog' = i
              /\ visitListeners' = {i}
              /\ unsubscribeBotVisit' = i
              /\ ops' = [ops EXCEPT ![i].pc = IF o = "ok" THEN "resolved" ELSE "rejected",
                                     ![i].conn = IF o = "throwAtConnect" THEN "none" ELSE "open"]
              /\ stopFn' = IF installsStopFn(o) THEN i ELSE stopFn
    /\ UNCHANGED <<lifecycle, apiCalls, userPollTimer, latch, epoch, handlers, sideVars>>

\* ---- the Session's callbacks ---------------------------------------------
\* the onLoginSuccess callback passed to networkMod.connect, up to its
\* `await this.logBuffer.append(...)`; it does not read status.running
LoginSuccess(s) ==
    /\ Macrotask
    /\ ops[s].conn = "open"
    /\ ops[s].login = "no"
    /\ connected' = TRUE
    /\ ops' = [ops EXCEPT ![s].login = "appending"]
    /\ UNCHANGED <<lifecycle, apiCalls, running, lastError, subVars, userPollTimer, stopFn, latch, epoch, handlers, sideVars>>

\* the rest of the callback: the sub-loops are started and
\* this.userPollTimer = setInterval(..., 1200); a rejected append ends it
LoginAppended(s, ok) ==
    /\ Macrotask
    /\ ops[s].login = "appending"
    /\ ops' = [ops EXCEPT ![s].login = "done"]
    /\ userPollTimer' = IF ok THEN s ELSE userPollTimer
    /\ UNCHANGED <<lifecycle, apiCalls, statusVars, subVars, stopFn, latch, epoch, handlers, sideVars>>

\* a handling of a fatal signature, as onBotLog or the ws close handler begins it
\* (epoch: the session whose latch it tripped, 0 = none; op: the stop call it chained)
NewHandler(c, pc, e) == [cat |-> c, pc |-> pc, epoch |-> e, op |-> 0]

\* if (this.xTriggered) return; -- is the handler's latch check passed
latchOpen(c) == ~latch[c]

\* ws.on("close", ...) of the connection start call s opened (registered when the
\* synchronous block of s ran to its end); the connection closes on its own or
\* the close requested by stopFn completes
WsClose(s) ==
    /\ Macrotask
    /\ ops[s].conn \in {"open", "closing"}
    /\ ops' = [ops EXCEPT ![s].conn = "closed", ![s].login = loginAfter(@, "closed")]
    /\ IF ops[s].pc = "resolved" /\ running
         THEN /\ connected' = FALSE
              /\ IF latchOpen("kickout")
                   THEN /\ Len(handlers) < MaxDeliveries
                        /\ latch' = [latch EXCEPT !["kickout"] = TRUE]
                        /\ lastError' = "kickout"
                        /\ handlers' = Append(handlers, NewHandler("kickout", "handlerAppend", epoch))
                   ELSE /\ lastError' = "wsclose"
                        /\ UNCHANGED <<latch, handlers>>
         ELSE UNCHANGED <<connected, lastError, latch, handlers>>
    /\ UNCHANGED <<lifecycle, apiCalls, running, subVars, userPollTimer, stopFn, epoch, sideVars>>

\* botEvents emits "log" with a message carrying the signature of category c and
\* onBotLog's `await this.logBuffer.append(...)` has resolved: onBotLog goes on from
\* `if (!this.status.running) return;` into the handler of the category, which
\* runs up to its own append.  (A listener is subscribed exactly while running
\* is true, so a message delivered to it earlier or now reaches this point with
\* running true; a rejected append, running = false and a tripped latch all end
\* the handling without any effect.)
onBotLog(c) ==
    /\ Macrotask
    /\ running
    /\ latchOpen(c)
    /\ Len(handlers) < MaxDeliveries
    /\ latch' = [latch EXCEPT ![c] = TRUE]
    /\ lastError' = c
    /\ handlers' = Append(handlers, NewHandler(c, "handlerAppend", epoch))
    /\ UNCHANGED <<ops, lifecycle, apiCalls, running, connected, subVars, userPollTimer, stopFn, epoch, sideVars>>

\* the fatal handler after its append: `await this.stop()` chains a stop call;
\* a rejected append rejects the handler before it, and nothing handles the
\* rejection (`void this.handleX(msg)`)
HandlerAppended(d, ok) ==
    /\ Macrotask
    /\ handlers[d].pc = "handlerAppend"
    /\ IF ok
         THEN /\ ops' = Append(ops, NewOp("stop", ChainPred))
              /\ lifecycle' = Len(ops) + 1
              /\ handlers' = [handlers EXCEPT ![d].pc = "awaitStop", ![d].op = Len(ops) + 1]
         ELSE /\ handlers' = [handlers EXCEPT ![d].pc = "rejected"]
              /\ UNCHANGED <<ops, lifecycle>>
    /\ UNCHANGED <<apiCalls, statusVars, subVars, userPollTimer, stopFn, latch, epoch, sideVars>>

\* `await this.stop()` in a fatal handler: has the stop call it chained settled
stopAwaited(d) == Settled(ops[handlers[d].op])

\* the handler's stop() has settled: sendSmtpAlert is called (pc "alerted");
\* sendSmtpAlert touches no state of the controller, so the handling is followed
\* no further here.  A rejected stop() rejects the handler before the alert.
HandlerStopDone(d) ==
    /\ handlers[d].pc = "awaitStop"
    /\ stopAwaited(d)
    /\ handlers' = [handlers EXCEPT ![d].pc = IF ops[handlers[d].op].pc = "resolved" THEN "alerted" ELSE "rejected"]
    /\ UNCHANGED <<ops, lifecycle, apiCalls, statusVars, subVars, userPollTimer, stopFn, latch, epoch, sideVars>>

\* the steps of the chain, of the fatal handlers and of the connection
SupervisorNext ==
    \/ \E k \in Kinds : Submit(k)
    \/ \E i \in DOMAIN ops : Begin(i)
    \/ \E i \in DOMAIN ops : StopFinish(i)
    \/ \E i \in DOMAIN ops : StartResume(i)
    \/ \E i \in DOMAIN ops : ConfigGot(i)
    \/ \E i \in DOMAIN ops, o \in StartOutcomes : ProtoLoaded(i, o)
    \/ \E s \in DOMAIN ops : WsClose(s)
    \/ \E c \in Cats : onBotLog(c)
    \/ \E d \in DOMAIN handlers, ok \in BOOLEAN : HandlerAppended(d, ok)
    \/ \E d \in DOMAIN handlers : HandlerStopDone(d)

Next ==
    \/ SupervisorNext
    \/ \E s \in DOMAIN ops : LoginSuccess(s)
    \/ \E s \in DOMAIN ops, ok \in BOOLEAN : LoginAppended(s, ok)

Spec == Init /\ [][Next]_vars

\* the scheduling the event loop guarantees to the chain: a queued body is run,
\* a microtask continuation is run, and a collaborator promise a lifecycle
\* body awaits settles (the premise of the liveness claim)
LifecycleStep ==
    \/ \E i \in DOMAIN ops : Begin(i)
    \/ \E i \in DOMAIN ops : StopFinish(i)
    \/ \E i \in DOMAIN ops : StartResume(i)
    \/ \E i \in DOMAIN ops : ConfigGot(i)
    \/ \E i \in DOMAIN ops, o \in StartOutcomes : ProtoLoaded(i, o)

\* the chain under that scheduling.  The login callback is left out: it writes
\* connected, userPollTimer and its own position only, which no step of the
\* chain or of a fatal handler reads.
FairSpec == Init /\ [][SupervisorNext]_vars /\ WF_vars(LifecycleStep)

\* the steps of a fatal handler: its log append settles, its stop() settles
HandlerStep ==
    \/ \E d \in DOMAIN handlers, ok \in BOOLEAN : HandlerAppended(d, ok)
    \/ \E d \in DOMAIN handlers : HandlerStopDone(d)

\* the chain and the fatal handlers under the event loop's scheduling: every
\* promise a handler awaits settles too
FatalSpec ==
    Init /\ [][SupervisorNext]_vars /\ WF_vars(LifecycleStep) /\ WF_vars(HandlerStep)

\* ---- sendSmtpAlert -------------------------------------------------------
\* what configStore.getSecret() can resolve to as config.smtp
SmtpConfigs ==
    {NoSmtp} \cup
    [defined : {TRUE}, enabled : BOOLEAN, host : {"", "smtp.host"}, port : {0, 465},
     from : {"", "bot@host"}, to : {"", "admin@host"}, user : {"", "bot"}, pass : {"", "secret"}]

\* if (!smtp?.enabled) return;
alertDisabled(c) == ~c.defined \/ ~c.enabled
\* if (!smtp.host || !smtp.port || !smtp.from || !smtp.to) return;
transportMissing(c) == c.host = "" \/ c.port = 0 \/ c.from = "" \/ c.to = ""
\* if (!smtp.user || !smtp.pass) { log; return; }
credentialsIncompleteBoth(c) == c.user = "" /\ c.pass = ""
credentialsIncomplete(c) == c.user = "" \/ c.pass = ""

\* sendSmtpAlert is called: up to `await this.configStore.getSecret()`
sendSmtpAlert ==
    /\ alertPc \in {"idle", "resolved", "rejected"}
    /\ alertCalls < MaxAlertCalls
    /\ alertCalls' = alertCalls + 1
    /\ smtp' = NoSmtp
    /\ attempts' = 0
    /\ alertPc' = "getSecret"
    /\ UNCHANGED alertFrame

\* getSecret resolved with c: the three guards, then createTransport (it builds
\* the transporter object and opens nothing) and the call of transporter.sendMail
SecretGot(c) ==
    /\ alertPc = "getSecret"
    /\ smtp' = c
    /\ IF alertDisabled(c) \/ transportMissing(c)
         THEN alertPc' = "resolved" /\ UNCHANGED attempts
         ELSE IF credentialsIncomplete(c)
                THEN alertPc' = "appendSkipped" /\ UNCHANGED attempts
                ELSE alertPc' = "sendMail" /\ attempts' = attempts + 1
    /\ UNCHANGED <<alertCalls, alertFrame>>

\* getSecret rejected: the catch block logs the failure
SecretRejected ==
    /\ alertPc = "getSecret"
    /\ alertPc' = "appendFailed"
    /\ UNCHANGED <<smtp, attempts, alertCalls, alertFrame>>

\* sendMail settled: the success is logged, or the catch block logs the failure
MailSettled(ok) ==
    /\ alertPc = "sendMail"
    /\ alertPc' = IF ok THEN "appendSent" ELSE "appendFailed"
    /\ UNCHANGED <<smtp, attempts, alertCalls, alertFrame>>

\* a logBuffer.append of sendSmtpAlert settled: the two inside the try block
\* (971, 989) reject into the catch block, the one in the catch block (992)
\* rejects sendSmtpAlert
AppendSettled(ok) ==
    /\ alertPc \in {"appendSkipped", "appendSent", "appendFailed"}
    /\ alertPc' = IF ok THEN "resolved"
                  ELSE IF alertPc = "appendFailed" THEN "rejected" ELSE "appendFailed"
    /\ UNCHANGED <<smtp, attempts, alertCalls, alertFrame>>

AlertNext ==
    \/ sendSmtpAlert
    \/ \E c \in SmtpConfigs : SecretGot(c)
    \/ SecretRejected
    \/ \E ok \in BOOLEAN : MailSettled(ok)
    \/ \E ok \in BOOLEAN : AppendSettled(ok)

AlertSpec == Init /\ [][AlertNext]_vars

\* ---- getStatus -----------------------------------------------------------
\* { ...this.status }: the reference of the object the spread allocates
spreadLive == statusObj
spread == Len(objects) + 1

\* getStatus(): return { ...this.status }
getStatus ==
    /\ Len(objects) < MaxObjects
    /\ objects' = Append(objects, objects[statusObj])
    /\ snapshots' = snapshots \cup {spread}
    /\ UNCHANGED <<statusObj, heapFrame>>

\* a caller assigns to a top-level field of an object getStatus returned to it
CallerAssign(r, f, v) ==
    /\ r \in snapshots
    /\ objects' = [objects EXCEPT ![r][f] = v]
    /\ UNCHANGED <<statusObj, snapshots, heapFrame>>

\* the controller assigns to a field of the live object (this.status.running =
\* false, this.status.lastError = msg, ...)
statusAssign(f, v) ==
    /\ objects' = [objects EXCEPT ![statusObj][f] = v]
    /\ UNCHANGED <<statusObj, snapshots, heapFrame>>

\* startInternal: this.status = { running: true, connected: false, ... }
statusReplace ==
    /\ Len(objects) < MaxObjects
    /\ objects' = Append(objects, [running |-> TRUE, lastError |-> "none"])
    /\ statusObj' = Len(objects) + 1
    /\ UNCHANGED <<snapshots, heapFrame>>

StatusNext ==
    \/ getStatus
    \/ \E r \in DOMAIN objects, f \in StatusFields : \E v \in FieldValues(f) : CallerAssign(r, f, v)
    \/ \E f \in StatusFields : \E v \in FieldValues(f) : statusAssign(f, v)
    \/ statusReplace

StatusSpec == Init /\ [][StatusNext]_vars

\* ---- onBotVisit / appendVisitRecord ---------------------------------------
\* the controller after one start() has run to its end: running, its listeners
\* subscribed, its connection open, its teardown function installed
RunningSession ==
    /\ ops = <<[NewOp("start", 0) EXCEPT !.pc = "resolved", !.conn = "open"]>>
    /\ lifecycle = 1
    /\ apiCalls = 1
    /\ running = TRUE
    /\ connected = FALSE
    /\ lastError = "none"
    /\ logListeners = {1}
    /\ visitListeners = {1}
    /\ unsubscribeBotLog = 1
    /\ unsubscribeBotVisit = 1
    /\ userPollTimer = 0
    /\ stopFn = 1
    /\ latch = AllClear
    /\ epoch = 1
    /\ handlers = << >>

\* that start replaced the status object: visits: { updatedAt, items: [] }
VisitInit ==
    /\ RunningSession
    /\ AlertIdle
    /\ objects = <<InitialStatus, [running |-> TRUE, lastError |-> "none"]>>
    /\ statusObj = 2
    /\ snapshots = {}
    /\ VisitIdle
    /\ BagUnread
    /\ ExpIdle
    /\ EntryIdle /\ CfgIdle /\ TickIdle /\ ViewIdle /\ WsIdle

\* the n-th visit event of the session (name and message are carried along
\* and not followed)
VisitEvent(n) ==
    [ts |-> n,
     direction |-> IF n % 2 = 1 THEN "incoming" ELSE "outgoing",
     gid |-> 10 + (n % 3),
     kind |-> IF n % 5 = 0 THEN "steal" ELSE "visit"]

\* id: `${input.ts}-${input.direction}-${input.gid}-${input.kind}`
visitId(e) == <<e.ts, e.direction, e.gid, e.kind>>

\* const keep = list.length > 400 ? list.slice(list.length - 400) : list
keepOldest(list) ==
    IF Len(list) > VisitCap THEN SubSeq(list, 1, VisitCap) ELSE list
keep(list) ==
    IF Len(list) > VisitCap THEN SubSeq(list, Len(list) - VisitCap + 1, Len(list)) ELSE list

\* appendVisitRecord(input): list.push({ id, ...input }); this.status.visits =
\* { updatedAt, items: keep }
appendVisitRecord(items, e) ==
    keep(Append(items, [id |-> visitId(e), ts |-> e.ts, direction |-> e.direction,
                        gid |-> e.gid, kind |-> e.kind]))

\* botEvents emits "visit" with payload e: if (!this.status.running) return;
\* this.appendVisitRecord(payload)
onBotVisit(e) ==
    visits' = IF running /\ visitListeners # {} THEN appendVisitRecord(visits, e) ELSE visits

\* a new visit event
VisitEmitted ==
    /\ emitted <= VisitCap
    /\ emitted' = emitted + 1
    /\ onBotVisit(VisitEvent(emitted + 1))
    /\ UNCHANGED <<redelivered, visitFrame>>

\* the latest visit event is delivered a second time
VisitRedelivered ==
    /\ emitted > 0
    /\ redelivered < MaxRedeliveries
    /\ redelivered' = redelivered + 1
    /\ onBotVisit(VisitEvent(emitted))
    /\ UNCHANGED <<emitted, visitFrame>>

VisitNext == VisitEmitted \/ VisitRedelivered

VisitSpec == VisitInit /\ [][VisitNext]_vars

\* ---- getBagIndex ---------------------------------------------------------
\* the condition of the early return (196-204)
cacheHitIgnoringGoods ==
    /\ bagIndex # 0
    /\ bagIndexMeta.defined
    /\ bagIndexMeta.plantMtimeMs = mtime.plantMtimeMs
    /\ bagIndexMeta.shopMtimeMs = mtime.shopMtimeMs
cacheHit ==
    /\ bagIndex # 0
    /\ bagIndexMeta.defined
    /\ bagIndexMeta.plantMtimeMs = mtime.plantMtimeMs
    /\ bagIndexMeta.shopMtimeMs = mtime.shopMtimeMs
    /\ bagIndexMeta.goodsMtimeMs = mtime.goodsMtimeMs

\* getBagIndex(): the three statSync calls (a failing one counts as 0), the early
\* return, else the rebuild (every read of it is inside a try/catch) and
\* this.bagIndex = {...}; this.bagIndexMeta = {...}
getBagIndex ==
    /\ indexCalls < MaxIndexCalls
    /\ indexCalls' = indexCalls + 1
    /\ IF cacheHit
         THEN /\ returned' = bagIndex
              /\ UNCHANGED <<bagIndex, bagIndexMeta, built>>
         ELSE /\ built' = built + 1
              /\ bagIndex' = built + 1
              /\ bagIndexMeta' = [defined |-> TRUE,
                                  plantMtimeMs |-> mtime.plantMtimeMs,
                                  shopMtimeMs |-> mtime.shopMtimeMs,
                                  goodsMtimeMs |-> mtime.goodsMtimeMs]
              /\ returned' = built + 1
    /\ UNCHANGED <<mtime, bagFrame>>

\* a source file is written, created or removed between two calls
SourceChanged(f, t) ==
    /\ t # mtime[f]
    /\ mtime' = [mtime EXCEPT ![f] = t]
    /\ UNCHANGED <<bagIndex, bagIndexMeta, built, returned, indexCalls, bagFrame>>

BagIndexNext ==
    \/ getBagIndex
    \/ \E f \in SourceFiles, t \in 0..MaxMtime : SourceChanged(f, t)

BagIndexInit ==
    CtlInit /\ AlertIdle /\ HeapIdle /\ VisitIdle /\ BagIdle /\ ExpIdle /\ EntryIdle /\ CfgIdle /\ TickIdle /\ ViewIdle /\ WsIdle

BagIndexSpec == BagIndexInit /\ [][BagIndexNext]_vars

\* ---- computeExpProgress --------------------------------------------------
Min(a, b) == IF a < b THEN a ELSE b
Max(a, b) == IF a > b THEN a ELSE b

\* Number.isFinite(x) for an entry of the table
isFinite(x) == x # NaN

\* the arrays a RoleLevel.json can fill: it lists no level at all, or it lists
\* levels 1..5 and gives the example's threshold for all or only some of them
\* (and tables whose thresholds do not rise with the level, or whose level 1
\* does not start at 0)
UnsortedTables ==
    {<<0, 100, 50, 500, 900, NaN>>,
     <<0, 100, 100, 500, 900, NaN>>,
     <<0, 250, 100, 900, 500, NaN>>,
     <<100, 250, 500, 900, 1400, NaN>>}
LevelTables ==
    {<< >>} \cup UnsortedTables \cup
    {[L \in 1..Len(ExampleStarts) |-> IF L \in holes THEN NaN ELSE ExampleStarts[L]] :
        holes \in SUBSET (1..5)}
Levels == 0..Len(ExampleStarts)
TotalExps == {-5, 0, 80, 99, 100, 260, 499, 500, 600, 900, 1000}

\* getLevelExpStarts(): null for an empty list and when levels 1 and 2 are not
\* both set (hasAtLeastTwo)
getLevelExpStartsUnchecked(list) == list
getLevelExpStarts(list) ==
    IF list = << >> THEN << >>
    ELSE IF isFinite(list[1]) /\ isFinite(list[2]) THEN list
    ELSE << >>

\* const maxLevel = starts.length - 2
maxLevelOf(t) == Len(t) - 1

\* if (!Number.isFinite(lvl) || lvl < 1) lvl = 1; lvl = Math.min(Math.floor(lvl), maxLevel)
clampLevel(t, lv) == Min(IF lv < 1 THEN 1 ELSE lv, maxLevelOf(t))

\* const lvlLooksValid = Number.isFinite(startAt) && Number.isFinite(nextAt) &&
\*   exp >= startAt && exp < nextAt
lvlLooksValidNever(t, lvl, exp) == FALSE
lvlLooksValid(t, lvl, exp) ==
    /\ isFinite(t[lvl])
    /\ isFinite(t[lvl + 1])
    /\ exp >= t[lvl]
    /\ exp < t[lvl + 1]

\* while (lo <= hi) { mid = (lo + hi) >> 1; ... }: the value of hi at the end
RECURSIVE search(_, _, _, _)
search(t, exp, lo, hi) ==
    IF lo > hi THEN hi
    ELSE LET mid == (lo + hi) \div 2
         IN  IF ~isFinite(t[mid]) THEN search(t, exp, lo, mid - 1)
             ELSE IF exp >= t[mid] THEN search(t, exp, mid + 1, hi)
             ELSE search(t, exp, lo, mid - 1)

\* let effective = lvl; if (!lvlLooksValid) { ...; effective = Math.max(1, Math.min(hi, maxLevel)) }
effectiveLevel(t, lv, exp) ==
    LET lvl == clampLevel(t, lv)
    IN  IF lvlLooksValid(t, lvl, exp) THEN lvl
        ELSE Max(1, Min(search(t, exp, 1, maxLevelOf(t)), maxLevelOf(t)))

\* (the same without Math.max(0, Math.min(needed, current)))
computeExpProgressUnclamped(t, lv, exp) ==
    IF t = << >> THEN NullProgress
    ELSE IF exp < 0 THEN NullProgress
    ELSE LET effective == effectiveLevel(t, lv, exp)
             curStart == t[effective]
             nxtStart == t[effective + 1]
         IN  IF ~isFinite(curStart) \/ ~isFinite(nxtStart) THEN NullProgress
             ELSE IF nxtStart - curStart <= 0 THEN NullProgress
             ELSE [null |-> FALSE, current |-> exp - curStart, needed |-> nxtStart - curStart]

\* computeExpProgress(level, totalExp) on the table t
computeExpProgress(t, lv, exp) ==
    IF t = << >> THEN NullProgress
    ELSE IF exp < 0 THEN NullProgress
    ELSE LET effective == effectiveLevel(t, lv, exp)
             curStart == t[effective]
             nxtStart == t[effective + 1]
             needed == nxtStart - curStart
             current == exp - curStart
         IN  IF ~isFinite(curStart) \/ ~isFinite(nxtStart) THEN NullProgress
             ELSE IF needed <= 0 THEN NullProgress
             ELSE [null |-> FALSE, current |-> Max(0, Min(needed, current)), needed |-> needed]

ExpInit ==
    /\ CtlInit /\ AlertIdle /\ HeapIdle /\ VisitIdle /\ BagUnread /\ EntryIdle /\ CfgIdle /\ TickIdle /\ ViewIdle /\ WsIdle
    /\ roleLevels \in LevelTables
    /\ starts = getLevelExpStarts(roleLevels)
    /\ level \in Levels
    /\ totalExp \in TotalExps
    /\ expPc = "input"
    /\ expProgress = NullProgress

\* the login callback or the tick calls computeExpProgress(user.level, user.exp)
ExpComputed ==
    /\ expPc = "input"
    /\ expPc' = "computed"
    /\ expProgress' = computeExpProgress(starts, level, totalExp)
    /\ UNCHANGED <<roleLevels, starts, level, totalExp, expFrame>>

ExpNext == ExpComputed

ExpSpec == ExpInit /\ [][ExpNext]_vars

\* ---- refreshBagView: the mapping of one entry -----------------------------
\* the ids and index contents followed: 1001 is the currency, 1 and 2 are seed
\* ids, 2 and 3 are fruit ids (2 is both), 4 is in no map; a fruit's meta holds
\* its fruitCount (0: null or zero) and its seedId (0: null)
EntryIds == {1001, 1, 2, 3, 4}
Maps(keys, values) == UNION {[D -> values] : D \in SUBSET keys}
Indexes ==
    [seedPrice : Maps({1, 2}, {10, 20}),
     fruit : Maps({2, 3}, [fruitCount : {0, 3}, seedId : {0, 1, 2}])]

\* Math.round((seedUnit / fruitCount) * 10000) / 10000, counted in 1/10000
roundE4(seedUnit, fruitCount) == (2 * 10000 * seedUnit + fruitCount) \div (2 * fruitCount)

\* the unit price of a fruit (316-323)
fruitUnit(idx, meta) ==
    IF meta.seedId \in DOMAIN idx.seedPrice /\ meta.fruitCount > 0
      THEN [priced |-> TRUE, e4 |-> roundE4(idx.seedPrice[meta.seedId], meta.fruitCount)]
      ELSE Unpriced

\* the callback of rawItems.map for an entry with a valid id and count (306-328)
mapEntryFruitFirst(idx, id) ==
    IF id = 1001 THEN [kind |-> "gold", unit |-> Unpriced]
    ELSE IF id \in DOMAIN idx.fruit
      THEN [kind |-> "fruit", unit |-> fruitUnit(idx, idx.fruit[id])]
    ELSE IF id \in DOMAIN idx.seedPrice
      THEN [kind |-> "seed", unit |-> [priced |-> TRUE, e4 |-> 10000 * idx.seedPrice[id]]]
    ELSE [kind |-> "item", unit |-> Unpriced]
mapEntry(idx, id) ==
    IF id = 1001 THEN [kind |-> "gold", unit |-> Unpriced]
    ELSE IF id \in DOMAIN idx.seedPrice
      THEN [kind |-> "seed", unit |-> [priced |-> TRUE, e4 |-> 10000 * idx.seedPrice[id]]]
    ELSE IF id \in DOMAIN idx.fruit
      THEN [kind |-> "fruit", unit |-> fruitUnit(idx, idx.fruit[id])]
    ELSE [kind |-> "item", unit |-> Unpriced]

EntryInit ==
    /\ CtlInit /\ AlertIdle /\ HeapIdle /\ VisitIdle /\ BagUnread /\ ExpIdle /\ CfgIdle /\ TickIdle /\ ViewIdle /\ WsIdle
    /\ index \in Indexes
    /\ entryId \in EntryIds
    /\ entryPc = "input"
    /\ bagItem = [kind |-> "gold", unit |-> Unpriced]

\* refreshBagView maps the entry
EntryMapped ==
    /\ entryPc = "input"
    /\ entryPc' = "mapped"
    /\ bagItem' = mapEntry(index, entryId)
    /\ UNCHANGED <<index, entryId, entryFrame>>

EntrySpec == EntryInit /\ [][EntryMapped]_vars

\* ---- refreshBagView as a whole, and the bag page ---------------------------
\* the index of the refresh: 1 and 2 are seeds, 3 is the fruit of seed 1 (three
\* per harvest), 1001 the currency, 4 in no map
ViewIndex ==
    [seedPrice |-> (1 :> 10) @@ (2 :> 20),
     fruit |-> (3 :> [fruitCount |-> 3, seedId |-> 1])]
\* toNum(it.id), toNum(it.count): 0 stands for every value that is not positive
RawIds == {0, 1001, 1, 3, 4}
RawCounts == {0, 1, 2}
RawLists == UNION {[1..n -> [id : RawIds, count : RawCounts]] : n \in 0..MaxRawItems}

\* const kindRank = { gold: 0, seed: 1, fruit: 2, item: 3 }
kindRank == [gold |-> 0, seed |-> 1, fruit |-> 2, item |-> 3]

\* the elements of a sequence
elements(s) == {s[i] : i \in 1..Len(s)}

\* Array.prototype.sort: stable, by a comparator returning a number (cmp[a, b]
\* is that number for the elements a and b)
sortBy(s, cmp) ==
    LET insert(x, t) ==
            LET k == Cardinality({i \in 1..Len(t) : cmp[t[i], x] <= 0})
            IN  SubSeq(t, 1, k) \o <<x>> \o SubSeq(t, k + 1, Len(t))
        sorted[n \in 0..Len(s)] == IF n = 0 THEN << >> ELSE insert(s[n], sorted[n - 1])
    IN  sorted[Len(s)]

\* (a, b) => kindRank[a.kind] - kindRank[b.kind] || a.id - b.id
byKindThenId(a, b) ==
    IF kindRank[a.kind] # kindRank[b.kind] THEN kindRank[a.kind] - kindRank[b.kind]
    ELSE a.id - b.id

\* rawItems.map(...).filter(Boolean): entries without a positive id and count are dropped
mapItems(idx, raw) ==
    LET kept == SelectSeq(raw, LAMBDA it : it.id > 0 /\ it.count > 0)
    IN  [i \in 1..Len(kept) |->
            [id |-> kept[i].id, kind |-> mapEntry(idx, kept[i].id).kind,
             count |-> kept[i].count, unit |-> mapEntry(idx, kept[i].id).unit]]

\* the items refreshBagView writes to status.bag (303-339)
bagViewItems(idx, raw) ==
    LET mapped == mapItems(idx, raw)
    IN  sortBy(mapped, [a \in elements(mapped), b \in elements(mapped) |-> byKindThenId(a, b)])

\* calcTotalGold(count, unitPriceGold), counted in 1/10000 gold
calcTotalGold(count, unit) ==
    IF count <= 0 \/ ~unit.priced THEN Unpriced
    ELSE [priced |-> TRUE, e4 |-> count * unit.e4]

\* const key = `${x.kind}:${x.id}:${priceKey}`
bagKey(x) == <<x.kind, x.id, x.unit>>

\* compactBagItems(input): a Map keeps the order in which its keys were first set
RECURSIVE compactInto(_, _)
compactInto(acc, rest) ==
    IF rest = << >> THEN acc
    ELSE LET x == Head(rest)
             hits == {i \in 1..Len(acc) : bagKey(acc[i]) = bagKey(x)}
         IN  IF hits = {} THEN compactInto(Append(acc, x), Tail(rest))
             ELSE LET i == CHOOSE h \in hits : TRUE
                      nextCount == acc[i].count + x.count
                  IN  compactInto([acc EXCEPT ![i].count = nextCount,
                                              ![i].totalGold = calcTotalGold(nextCount, acc[i].unit)],
                                  Tail(rest))
compactBagItems(input) == compactInto(<< >>, input)

\* the columns the page sorts by (the name column is not followed)
SortKeys == {"id", "kind", "count", "unitPriceGold", "totalGold"}
SortDirs == {"asc", "desc"}

\* cmpNullLast(av, bv)
cmpNullLast(av, bv, dir) ==
    IF ~av.priced /\ ~bv.priced THEN 0
    ELSE IF ~av.priced THEN 1
    ELSE IF ~bv.priced THEN -1
    ELSE dir * (av.e4 - bv.e4)

\* x || y on numbers
orElse(x, y) == IF x # 0 THEN x ELSE y

\* the comparator of compacted.sort (161-175)
pageCompare(a, b, sort) ==
    LET dir == IF sort.dir = "asc" THEN 1 ELSE -1
    IN  CASE sort.key = "id" -> dir * (a.id - b.id)
          [] sort.key = "kind" -> orElse(dir * (kindRank[a.kind] - kindRank[b.kind]), a.id - b.id)
          [] sort.key = "count" -> orElse(dir * (a.count - b.count), a.id - b.id)
          [] sort.key = "unitPriceGold" -> orElse(cmpNullLast(a.unit, b.unit, dir), a.id - b.id)
          [] OTHER -> orElse(cmpNullLast(a.totalGold, b.totalGold, dir),
                              orElse(dir * (a.count - b.count), a.id - b.id))

\* the list of the page with every kind shown and no search text (147-178)
pageListOf(its, sort) ==
    LET withTotal == [i \in 1..Len(its) |->
                         [id |-> its[i].id, kind |-> its[i].kind, count |-> its[i].count,
                          unit |-> its[i].unit,
                          totalGold |-> calcTotalGold(its[i].count, its[i].unit)]]
        compacted == compactBagItems(withTotal)
    IN  sortBy(compacted,
               [a \in elements(compacted), b \in elements(compacted) |-> pageCompare(a, b, sort)])

ViewInit ==
    /\ CtlInit /\ AlertIdle /\ HeapIdle /\ VisitIdle /\ BagUnread /\ ExpIdle /\ EntryIdle
    /\ CfgIdle /\ TickIdle /\ WsIdle
    /\ rawItems \in RawLists
    /\ bagItems = << >>
    /\ pageSort = [key |-> "totalGold", dir |-> "desc"]
    /\ pageList = << >>
    /\ viewPc = "input"

\* refreshBagView after getBag() resolved: status.bag = { updatedAt, items }
BagViewRefreshed ==
    /\ viewPc = "input"
    /\ viewPc' = "refreshed"
    /\ bagItems' = bagViewItems(ViewIndex, rawItems)
    /\ UNCHANGED <<rawItems, pageSort, pageList, viewFrame>>

\* the bag page renders the pushed snapshot, sorted by the column the user chose
PageRendered(key, dir) ==
    /\ viewPc = "refreshed"
    /\ viewPc' = "rendered"
    /\ pageSort' = [key |-> key, dir |-> dir]
    /\ pageList' = pageListOf(bagItems, pageSort')
    /\ UNCHANGED <<rawItems, bagItems, viewFrame>>

ViewNext ==
    \/ BagViewRefreshed
    \/ \E key \in SortKeys, dir \in SortDirs : PageRendered(key, dir)

ViewSpec == ViewInit /\ [][ViewNext]_vars

\* ---- useAdminWs: the admin WebSocket hook of the web client ---------------
\* the refs of the hook and the sockets and timeouts it has created, as a record
Hook ==
    [wsUrlRef |-> wsUrlRef, closingRef |-> closingRef, wsRef |-> wsRef, sockets |-> sockets,
     reconnectTimerRef |-> reconnectTimerRef, timers |-> timers, timerCount |-> timerCount]

\* the tokens a render can carry (0: null, the url is null)
Tokens == {0, 1, 2}

\* wsRef.current?.close(): an open or connecting socket starts closing
closeCurrent(h) ==
    IF h.wsRef = 0 THEN h.sockets
    ELSE [h.sockets EXCEPT ![h.wsRef] = IF @ \in {"connecting", "open"} THEN "closing" ELSE @]

\* if (reconnectTimerRef.current !== null) window.clearTimeout(...); ... = null;
\* wsRef.current?.close(); wsRef.current = null (34-44, 109-118)
release(h) ==
    [h EXCEPT !.timers = @ \ {h.reconnectTimerRef},
              !.reconnectTimerRef = 0,
              !.sockets = closeCurrent(h),
              !.wsRef = 0]

\* the cleanup the effect returned (107-119)
cleanup(h) == release([h EXCEPT !.closingRef = TRUE])

\* scheduleReconnect() (48-58)
scheduleReconnect(h) ==
    IF h.wsUrlRef = 0 \/ h.closingRef THEN h
    ELSE IF h.reconnectTimerRef # 0 THEN h
    ELSE [h EXCEPT !.timerCount = @ + 1,
                   !.reconnectTimerRef = h.timerCount + 1,
                   !.timers = @ \cup {h.timerCount + 1}]

\* connect() (72-103); the constructor does not throw on the url of line 27
connect(h) ==
    IF h.wsUrlRef = 0 \/ h.closingRef THEN h
    ELSE [h EXCEPT !.sockets = Append(@, "connecting"), !.wsRef = Len(h.sockets) + 1]

\* the body of the effect for the url of this render (31-105)
effectBody(h, url) ==
    LET h1 == [h EXCEPT !.wsUrlRef = url, !.closingRef = FALSE]
    IN  IF url = 0 THEN release(h1) ELSE connect(h1)

\* the refs take the values of the record h
HookBecomes(h) ==
    /\ wsUrlRef' = h.wsUrlRef
    /\ closingRef' = h.closingRef
    /\ wsRef' = h.wsRef
    /\ sockets' = h.sockets
    /\ reconnectTimerRef' = h.reconnectTimerRef
    /\ timers' = h.timers
    /\ timerCount' = h.timerCount

\* the component mounts, or renders with another token: React runs the cleanup
\* of the previous effect (if it returned one) and then the effect
Rendered(url) ==
    /\ effect # "unmounted"
    /\ effect = "none" \/ url # wsUrl
    /\ renders < MaxRenders
    /\ url # 0 => Len(sockets) < MaxSockets
    /\ renders' = renders + 1
    /\ wsUrl' = url
    /\ effect' = IF url = 0 THEN "idle" ELSE "live"
    /\ HookBecomes(effectBody(IF effect = "live" THEN cleanup(Hook) ELSE Hook, url))
    /\ UNCHANGED wsFrame

\* the component unmounts
Unmounted ==
    /\ effect \in {"idle", "live"}
    /\ effect' = "unmounted"
    /\ HookBecomes(IF effect = "live" THEN cleanup(Hook) ELSE Hook)
    /\ UNCHANGED <<wsUrl, renders, wsFrame>>

\* ws.onopen of socket i
SocketOpened(i) ==
    /\ sockets[i] = "connecting"
    /\ sockets' = [sockets EXCEPT ![i] = "open"]
    /\ UNCHANGED <<wsUrl, effect, wsUrlRef, closingRef, wsRef, reconnectTimerRef, timers,
                   timerCount, renders, wsFrame>>

\* the connection of socket i ends: ws.onerror (when it failed) and ws.onclose
SocketClosed(i, failed) ==
    /\ sockets[i] # "closed"
    /\ timerCount < MaxTimers
    /\ LET h0 == [Hook EXCEPT !.sockets[i] = "closed"]
           h1 == IF failed THEN scheduleReconnect(h0) ELSE h0
       IN  HookBecomes(scheduleReconnect(h1))
    /\ UNCHANGED <<wsUrl, effect, renders, wsFrame>>

\* the timeout t runs: reconnectTimerRef.current = null; connect() (53-57)
ReconnectTimerFired(t) ==
    /\ t \in timers
    /\ Len(sockets) < MaxSockets
    /\ HookBecomes(connect([Hook EXCEPT !.timers = @ \ {t}, !.reconnectTimerRef = 0]))
    /\ UNCHANGED <<wsUrl, effect, renders, wsFrame>>

WsNext ==
    \/ \E url \in Tokens : Rendered(url)
    \/ Unmounted
    \/ \E i \in DOMAIN sockets : SocketOpened(i)
    \/ \E i \in DOMAIN sockets, failed \in BOOLEAN : SocketClosed(i, failed)
    \/ \E t \in timers : ReconnectTimerFired(t)

WsSpec == Init /\ [][WsNext]_vars

\* ---- ConfigStore, onAfterSet and applyRuntimeConfig -----------------------
\* documents carry platform, the interval fields, farming and smtp (automation
\* and ui are not followed); an undefined farming or smtp has defined = FALSE
IntervalFields ==
    {"selfIntervalSecMin", "selfIntervalSecMax", "friendIntervalSecMin", "friendIntervalSecMax"}
LegacyFields == {"selfIntervalSec", "friendIntervalSec", "platform"}

\* String.prototype.trim on the strings followed
trim(str) == IF str = " " THEN "" ELSE str

\* what callers pass to set(): farming as the settings page sends it
FarmingInputs ==
    {NoFarming} \cup
    [defined : {TRUE}, forceLowestLevelCrop : BOOLEAN, forceLatestLevelCrop : BOOLEAN,
     fixedSeedId : {0, 5}]
SmtpInputs ==
    {NoSmtp} \cup
    [defined : {TRUE}, enabled : {TRUE}, host : {" ", "smtp.host"}, port : {0, 465},
     from : {"", "bot@host"}, to : {" ", "admin@host"}, user : {"bot"}, pass : {" ", "secret"}] \cup
    [defined : {TRUE}, enabled : {FALSE}, host : {" "}, port : {0},
     from : {""}, to : {" "}, user : {"bot"}, pass : {" ", "secret"}]
SetInputs ==
    [platform : {"qq"},
     selfIntervalSecMin : {0, 1, 2}, selfIntervalSecMax : {1},
     friendIntervalSecMin : {1, 2}, friendIntervalSecMax : {1},
     farming : FarmingInputs, smtp : SmtpInputs]

\* the documents config.json starts with: written by the legacy version, by
\* this version, or unreadable
Files ==
    {[selfIntervalSec |-> 1, friendIntervalSec |-> 1, platform |-> "qq"],
     [selfIntervalSec |-> 2, friendIntervalSec |-> 3, platform |-> "qq"]} \cup
    {Fallback,
     [Fallback EXCEPT !.selfIntervalSecMax = 20,
                      !.farming = [defined |-> TRUE, forceLowestLevelCrop |-> TRUE, fixedSeedId |-> 0],
                      !.smtp = [defined |-> TRUE, enabled |-> TRUE, host |-> "smtp.host",
                                port |-> 465, from |-> "bot@host", to |-> "admin@host",
                                user |-> "bot", pass |-> "old"]],
     [platform |-> "qq"]}

\* the sessions the controller can be in when a configuration arrives: stopped,
\* starting (friendControl set at 703, running set at 715), running before and
\* after the login callback started the friend loop
Sessions ==
    {ss \in [running : BOOLEAN, friendControl : BOOLEAN, friendFarmEnabled : BOOLEAN,
             friendLoop : BOOLEAN] :
        /\ ss.running => ss.friendControl
        /\ ss.friendLoop => ss.running /\ ss.friendFarmEnabled}

\* StoredRuntimeConfigSchema: z.number().int().min(1).max(3600) on each interval
storedSchemaOk(doc) == \A f \in IntervalFields : doc[f] \in 1..3600

\* the superRefine of ApiRuntimeConfigSchema
refineOk(doc) ==
    /\ doc.selfIntervalSecMin <= doc.selfIntervalSecMax
    /\ doc.friendIntervalSecMin <= doc.friendIntervalSecMax
    /\ (doc.smtp.defined /\ doc.smtp.enabled) =>
          /\ trim(doc.smtp.host) # ""
          /\ doc.smtp.port # 0
          /\ trim(doc.smtp.from) # ""
          /\ trim(doc.smtp.to) # ""

\* ApiRuntimeConfigSchema.parse(next) does not throw
apiSchemaOkUnrefined(doc) == storedSchemaOk(doc)
apiSchemaOk(doc) == storedSchemaOk(doc) /\ refineOk(doc)

\* what parse returns: z.object drops the keys the schema does not name
parsedOf(doc) ==
    [doc EXCEPT !.farming =
        IF doc.farming.defined
          THEN [defined |-> TRUE, forceLowestLevelCrop |-> doc.farming.forceLowestLevelCrop,
                fixedSeedId |-> doc.farming.fixedSeedId]
          ELSE NoFarming]

toStoredSelfOnly(raw) ==
    IF LegacyFields \subseteq DOMAIN raw
      THEN [platform |-> raw.platform,
            selfIntervalSecMin |-> raw.selfIntervalSec, selfIntervalSecMax |-> raw.selfIntervalSec,
            friendIntervalSecMin |-> raw.selfIntervalSec, friendIntervalSecMax |-> raw.selfIntervalSec,
            farming |-> NoFarming, smtp |-> NoSmtp]
    ELSE IF IntervalFields \subseteq DOMAIN raw /\ storedSchemaOk(raw)
      THEN raw
    ELSE NullDoc
toStored(raw) ==
    IF /\ LegacyFields \subseteq DOMAIN raw
       /\ raw.selfIntervalSec \in 1..3600 /\ raw.friendIntervalSec \in 1..3600
      THEN [platform |-> raw.platform,
            selfIntervalSecMin |-> raw.selfIntervalSec, selfIntervalSecMax |-> raw.selfIntervalSec,
            friendIntervalSecMin |-> raw.friendIntervalSec, friendIntervalSecMax |-> raw.friendIntervalSec,
            farming |-> NoFarming, smtp |-> NoSmtp]
    ELSE IF IntervalFields \subseteq DOMAIN raw /\ storedSchemaOk(raw)
      THEN raw
    ELSE NullDoc

\* (the same with the password copied into the public smtp object)
toPublicWithPass(stored) ==
    [platform |-> stored.platform,
     selfIntervalSecMin |-> stored.selfIntervalSecMin,
     selfIntervalSecMax |-> stored.selfIntervalSecMax,
     friendIntervalSecMin |-> stored.friendIntervalSecMin,
     friendIntervalSecMax |-> stored.friendIntervalSecMax,
     farming |-> IF stored.farming.defined THEN stored.farming
                 ELSE [defined |-> TRUE, forceLowestLevelCrop |-> FALSE, fixedSeedId |-> 0],
     smtp |-> [defined |-> stored.smtp.defined, enabled |-> stored.smtp.enabled,
               host |-> stored.smtp.host, port |-> stored.smtp.port, user |-> stored.smtp.user,
               pass |-> stored.smtp.pass,
               passSet |-> stored.smtp.pass # "", from |-> stored.smtp.from, to |-> stored.smtp.to]]
toPublic(stored) ==
    [platform |-> stored.platform,
     selfIntervalSecMin |-> stored.selfIntervalSecMin,
     selfIntervalSecMax |-> stored.selfIntervalSecMax,
     friendIntervalSecMin |-> stored.friendIntervalSecMin,
     friendIntervalSecMax |-> stored.friendIntervalSecMax,
     farming |-> IF stored.farming.defined THEN stored.farming
                 ELSE [defined |-> TRUE, forceLowestLevelCrop |-> FALSE, fixedSeedId |-> 0],
     smtp |-> [defined |-> stored.smtp.defined, enabled |-> stored.smtp.enabled,
               host |-> stored.smtp.host, port |-> stored.smtp.port, user |-> stored.smtp.user,
               passSet |-> stored.smtp.pass # "", from |-> stored.smtp.from, to |-> stored.smtp.to]]

\* getSecret(): the stored configuration and the document it leaves in the file
getSecret(doc) ==
    IF toStored(doc) = NullDoc
      THEN [file |-> Fallback, value |-> Fallback]
      ELSE [file |-> doc, value |-> toStored(doc)]
\* get(): the public configuration
get(doc) == toPublic(getSecret(doc).value)

\* the document set() writes
merged(parsed, current) ==
    [platform |-> parsed.platform,
     selfIntervalSecMin |-> parsed.selfIntervalSecMin,
     selfIntervalSecMax |-> parsed.selfIntervalSecMax,
     friendIntervalSecMin |-> parsed.friendIntervalSecMin,
     friendIntervalSecMax |-> parsed.friendIntervalSecMax,
     farming |-> IF parsed.farming.defined THEN parsed.farming ELSE current.farming,
     smtp |-> IF parsed.smtp.defined
                THEN [parsed.smtp EXCEPT !.pass = IF trim(parsed.smtp.pass) # ""
                                                    THEN parsed.smtp.pass
                                                    ELSE current.smtp.pass]
                ELSE current.smtp]

\* what applyRuntimeConfig receives: automation.autoFriendFarm and farming
ApplyInputs == [autoFriendFarm : BOOLEAN, farming : FarmingInputs]

\* wantFriendFarm !== this.friendFarmEnabled in a running session (381)
togglesWheneverRunning(config) == session.running /\ session.friendControl
toggles(config) ==
    session.running /\ session.friendControl /\ config.autoFriendFarm # session.friendFarmEnabled

applyRuntimeConfig(config) ==
    /\ applied' = config
    /\ botConfig' =
          [forceLowestLevelCrop |-> config.farming.forceLowestLevelCrop,
           forceLatestLevelCrop |-> IF "forceLatestLevelCrop" \in DOMAIN config.farming
                                     THEN config.farming.forceLatestLevelCrop ELSE FALSE,
           fixedSeedId |-> config.farming.fixedSeedId]
    /\ session' =
          IF toggles(config)
            THEN [session EXCEPT !.friendLoop = config.autoFriendFarm,
                                 !.friendFarmEnabled = config.autoFriendFarm]
            ELSE session
    /\ cfgLog' =
          (IF toggles(config)
             THEN <<IF config.autoFriendFarm THEN "friend patrol on" ELSE "friend patrol off">>
             ELSE << >>) \o <<"runtime config applied">>

ConfigInit ==
    /\ CtlInit /\ AlertIdle /\ HeapIdle /\ VisitIdle /\ BagUnread /\ ExpIdle /\ EntryIdle /\ TickIdle /\ ViewIdle /\ WsIdle
    /\ file \in Files
    /\ cfgPc = "idle"
    /\ next = Fallback
    /\ applied = [autoFriendFarm |-> TRUE, farming |-> NoFarming]
    /\ botConfig = [forceLowestLevelCrop |-> FALSE, forceLatestLevelCrop |-> FALSE, fixedSeedId |-> 0]
    /\ session \in Sessions
    /\ cfgLog = << >>
    /\ got = NullDoc

\* set(next) is called: ApiRuntimeConfigSchema.parse, up to `await this.getSecret()`
SetCalled(doc) ==
    /\ cfgPc = "idle"
    /\ next' = doc
    /\ cfgPc' = IF apiSchemaOk(doc) THEN "getSecret" ELSE "rejected"
    /\ UNCHANGED <<file, applied, botConfig, session, cfgLog, got, cfgFrame>>

\* getSecret() resolves (an unreadable document was replaced by the fallback),
\* up to `await writeJsonFile(this.filePath, merged)`
SecretRead ==
    /\ cfgPc = "getSecret"
    /\ file' = getSecret(file).file
    /\ cfgPc' = "write"
    /\ UNCHANGED <<next, applied, botConfig, session, cfgLog, got, cfgFrame>>

\* writeJsonFile settles; after a write, onAfterSet hands the public
\* configuration to applyRuntimeConfig (its automation has no autoFriendFarm)
Written(ok) ==
    /\ cfgPc = "write"
    /\ IF ok
         THEN /\ file' = merged(parsedOf(next), getSecret(file).value)
              /\ applyRuntimeConfig([autoFriendFarm |-> FALSE, farming |-> toPublic(file').farming])
              /\ got' = toPublic(file')
              /\ cfgPc' = "saved"
         ELSE /\ cfgPc' = "rejected"
              /\ UNCHANGED <<file, applied, botConfig, session, cfgLog, got>>
    /\ UNCHANGED <<next, cfgFrame>>

\* applyRuntimeConfig(config) is called with a RuntimeConfig
ApplyCalled(config) ==
    /\ cfgPc = "idle"
    /\ applyRuntimeConfig(config)
    /\ cfgPc' = "applied"
    /\ UNCHANGED <<file, next, got, cfgFrame>>

\* get() is called and resolves
Got ==
    /\ cfgPc = "idle"
    /\ file' = getSecret(file).file
    /\ got' = get(file)
    /\ cfgPc' = "got"
    /\ UNCHANGED <<next, applied, botConfig, session, cfgLog, cfgFrame>>

ConfigNext ==
    \/ cfgPc = "idle" /\ \E doc \in SetInputs : SetCalled(doc)
    \/ SecretRead
    \/ \E ok \in BOOLEAN : Written(ok)
    \/ cfgPc = "idle" /\ \E config \in ApplyInputs : ApplyCalled(config)
    \/ Got

ConfigSpec == ConfigInit /\ [][ConfigNext]_vars

\* ---- the tick timer, refreshBagView and the statements of stopInternal ----
\* start() and stop() are followed one call at a time (runExclusive serialises
\* them) and only along their successful path; failing starts are followed in Spec

\* the statements of stopInternal up to the call of stopFn (891-899) and after
\* its await (900, 902; friendControl, 901, is followed in Sessions)
stopHeadTimerLate ==
    <<"running", "connected", "unsubscribeBotLog", "unsubscribeBotVisit", "stopFn()", "userPollTimer">>
stopHead ==
    <<"running", "connected", "unsubscribeBotLog", "unsubscribeBotVisit", "userPollTimer", "stopFn()">>
stopTail == <<"stopFn", "bag">>

\* one statement of stopInternal; o: how the body of stopFn ends (its cleanup and
\* ws.close() also cancel a login callback that was not delivered yet)
exec(st, o) ==
    /\ running' = IF st = "running" THEN FALSE ELSE running
    /\ connected' = IF st = "connected" THEN FALSE ELSE connected
    /\ logListeners' = IF st = "unsubscribeBotLog"
                         THEN unsubscribe(logListeners, unsubscribeBotLog) ELSE logListeners
    /\ unsubscribeBotLog' = IF st = "unsubscribeBotLog" THEN 0 ELSE unsubscribeBotLog
    /\ visitListeners' = IF st = "unsubscribeBotVisit"
                           THEN unsubscribe(visitListeners, unsubscribeBotVisit) ELSE visitListeners
    /\ unsubscribeBotVisit' = IF st = "unsubscribeBotVisit" THEN 0 ELSE unsubscribeBotVisit
    /\ userPollTimer' = IF st = "userPollTimer" THEN clearUserPollTimer ELSE userPollTimer
    /\ loginPc' = IF st = "stopFn()" /\ stopFn # 0 /\ o = "ok"
                    THEN [loginPc EXCEPT ![stopFn] = IF @ = "no" THEN "never" ELSE @]
                    ELSE loginPc
    /\ stopFn' = IF st = "stopFn" THEN 0 ELSE stopFn
    /\ bag' = IF st = "bag" THEN 0 ELSE bag

\* timers, socket events and settled collaborator promises are delivered only
\* while no synchronous block runs; `await this.stopFn?.()` resumes in a
\* microtask, so stopInternal is one such block
BetweenTasks == call.pc \in {"idle", "config", "proto"}

\* the body of stop() or start() begins: both with stopInternal
CallBegins(k) ==
    /\ call = NoCall
    /\ k = "start" => sessionNo < MaxSessions
    /\ call' = [kind |-> k, pc |-> "head", at |-> 1]
    /\ UNCHANGED <<running, connected, logListeners, visitListeners, unsubscribeBotLog,
                   unsubscribeBotVisit, userPollTimer, stopFn, sessionNo, loginPc, fetches,
                   bagPollInFlight, bag, fetched, polls, tickFrame>>

\* the next statement of stopInternal before its await
HeadStep ==
    /\ call.pc = "head"
    /\ \E o \in (IF stopHead[call.at] = "stopFn()" /\ stopFn # 0 THEN TeardownOutcomes ELSE {"ok"}) :
         exec(stopHead[call.at], o)
    /\ call' = IF call.at = Len(stopHead)
                 THEN [call EXCEPT !.pc = "tail", !.at = 1]
                 ELSE [call EXCEPT !.at = @ + 1]
    /\ UNCHANGED <<sessionNo, fetches, bagPollInFlight, fetched, polls, tickFrame>>

\* the next statement of stopInternal after its await; stop() then resolves,
\* start() goes on to `await this.configStore.get()`
TailStep ==
    /\ call.pc = "tail"
    /\ exec(stopTail[call.at], "ok")
    /\ call' = IF call.at < Len(stopTail) THEN [call EXCEPT !.at = @ + 1]
                 ELSE IF call.kind = "stop" THEN NoCall
                 ELSE [call EXCEPT !.pc = "config", !.at = 0]
    /\ UNCHANGED <<sessionNo, fetches, bagPollInFlight, fetched, polls, tickFrame>>

\* configStore.get() settled: up to `await protoMod.loadProto()`
ConfigAwaited ==
    /\ call.pc = "config"
    /\ call' = [call EXCEPT !.pc = "proto"]
    /\ UNCHANGED <<running, connected, logListeners, visitListeners, unsubscribeBotLog,
                   unsubscribeBotVisit, userPollTimer, stopFn, sessionNo, loginPc, fetches,
                   bagPollInFlight, bag, fetched, polls, tickFrame>>

\* loadProto() resolved: the status object is replaced (running: true, bag: null),
\* the listeners are subscribed, the connection is opened and stopFn installed
Opened ==
    /\ call.pc = "proto"
    /\ sessionNo' = sessionNo + 1
    /\ running' = TRUE
    /\ connected' = FALSE
    /\ bag' = 0
    /\ logListeners' = {sessionNo'}
    /\ unsubscribeBotLog' = sessionNo'
    /\ visitListeners' = {sessionNo'}
    /\ unsubscribeBotVisit' = sessionNo'
    /\ loginPc' = Append(loginPc, "no")
    /\ stopFn' = sessionNo'
    /\ call' = NoCall
    /\ UNCHANGED <<userPollTimer, fetches, bagPollInFlight, fetched, polls, tickFrame>>

\* the login callback of session n up to `await this.logBuffer.append(...)`
LoginCallback(n) ==
    /\ BetweenTasks
    /\ loginPc[n] = "no"
    /\ connected' = TRUE
    /\ loginPc' = [loginPc EXCEPT ![n] = "appending"]
    /\ UNCHANGED <<running, logListeners, visitListeners, unsubscribeBotLog, unsubscribeBotVisit,
                   userPollTimer, stopFn, call, sessionNo, fetches, bagPollInFlight, bag,
                   fetched, polls, tickFrame>>

\* the rest of the login callback: this.userPollTimer = setInterval(..., 1200);
\* a rejected append ends the callback before
LoginCallbackResumed(n, ok) ==
    /\ BetweenTasks
    /\ loginPc[n] = "appending"
    /\ loginPc' = [loginPc EXCEPT ![n] = "done"]
    /\ userPollTimer' = IF ok THEN n ELSE userPollTimer
    /\ UNCHANGED <<running, connected, logListeners, visitListeners, unsubscribeBotLog,
                   unsubscribeBotVisit, stopFn, call, sessionNo, fetches, bagPollInFlight, bag,
                   fetched, polls, tickFrame>>

\* refreshBagView goes past its two early returns (292-293)
refreshStartsUnmarked == running /\ connected
refreshStarts == running /\ connected /\ ~bagPollInFlight

\* the timer callback: poll() writes status.user and the farm views, and when 8 s
\* have passed since the last refresh (due) refreshBagView is called, up to its
\* `await deps.warehouseMod.getBag()`
Tick(due) ==
    /\ BetweenTasks
    /\ userPollTimer # 0
    /\ polls < MaxPolls
    /\ polls' = polls + 1
    /\ IF due /\ refreshStarts
         THEN /\ bagPollInFlight' = TRUE
              /\ fetches' = Append(fetches, userPollTimer)
         ELSE UNCHANGED <<bagPollInFlight, fetches>>
    /\ UNCHANGED <<running, connected, logListeners, visitListeners, unsubscribeBotLog,
                   unsubscribeBotVisit, userPollTimer, stopFn, call, sessionNo, loginPc, bag,
                   fetched, tickFrame>>

\* getBag() of the i-th refresh settles: the view is written (ok) or the catch
\* returns; finally clears the marker
BagFetched(i, ok) ==
    /\ BetweenTasks
    /\ i \in 1..Len(fetches)
    /\ bag' = IF ok THEN fetches[i] ELSE bag
    /\ fetched' = IF ok THEN "ok" ELSE "failed"
    /\ bagPollInFlight' = FALSE
    /\ fetches' = SubSeq(fetches, 1, i - 1) \o SubSeq(fetches, i + 1, Len(fetches))
    /\ UNCHANGED <<running, connected, logListeners, visitListeners, unsubscribeBotLog,
                   unsubscribeBotVisit, userPollTimer, stopFn, call, sessionNo, loginPc,
                   polls, tickFrame>>

TickNext ==
    \/ \E k \in {"stop", "start"} : CallBegins(k)
    \/ HeadStep
    \/ TailStep
    \/ ConfigAwaited
    \/ Opened
    \/ \E n \in 1..sessionNo : LoginCallback(n)
    \/ \E n \in 1..sessionNo, ok \in BOOLEAN : LoginCallbackResumed(n, ok)
    \/ \E due \in BOOLEAN : Tick(due)
    \/ \E i \in 1..Len(fetches), ok \in BOOLEAN : BagFetched(i, ok)

TickSpec == Init /\ [][TickNext]_vars

\* ---- claims --------------------------------------------------------------
MaxOps == MaxCalls + MaxDeliveries
OpenSessions == {s \in DOMAIN ops : ops[s].conn = "open"}
StopCalled(d) == handlers[d].pc \in {"awaitStop", "alerted"}

\* C1: the bodies of chained start/stop calls never interleave: while a call has
\* not settled (it is queued or its body is executing), every call chained after
\* it is still queued, whether the calls before it resolved or rejected.
C1_BodiesNeverInterleave ==
    \A i, j \in DOMAIN ops : (i < j /\ ~Settled(ops[i])) => ops[j].pc = "pending"

\* a body executes after a rejected call while a later call waits in the chain
C1_Witness ==
    \E i \in DOMAIN ops :
        /\ ops[i].pc = "rejected"
        /\ i + 2 \in DOMAIN ops
        /\ Executing(ops[i + 1])
        /\ ops[i + 2].pc = "pending"

\* C2: start() directly followed in the chain by stop(): the stop's body begins
\* only once the start has settled, and when both have completed (and no later
\* call has begun) the supervisor is Stopped: running is false, no log or visit
\* listener is subscribed and no teardown function is left installed.
C2_StartThenStop ==
    \A i \in DOMAIN ops :
        (i + 1 \in DOMAIN ops /\ ops[i].kind = "start" /\ ops[i + 1].kind = "stop") =>
            /\ ops[i + 1].pc # "pending" => Settled(ops[i])
            /\ (/\ ops[i + 1].pc = "resolved"
                /\ \A j \in DOMAIN ops : j > i + 1 => ops[j].pc = "pending")
               => /\ ~running
                  /\ logListeners = {} /\ visitListeners = {}
                  /\ unsubscribeBotLog = 0 /\ unsubscribeBotVisit = 0
                  /\ stopFn = 0

\* the start wired its session to the end and the stop behind it tore it down
C2_Witness ==
    \E i \in DOMAIN ops :
        /\ i + 1 \in DOMAIN ops
        /\ ops[i].kind = "start" /\ ops[i].pc = "resolved"
        /\ ops[i].conn = "closing"
        /\ ops[i + 1].kind = "stop" /\ ops[i + 1].pc = "resolved"

\* C3 (FairSpec): every chained start/stop call eventually settles.
C3_EveryCallCompletes ==
    \A n \in 1..MaxOps :
        (n \in DOMAIN ops) ~> (n \in DOMAIN ops /\ Settled(ops[n]))

\* a call chained behind a rejected call has completed, and so has the stop a
\* fatal handler chained
C3_Witness ==
    /\ \E i \in DOMAIN ops :
        ops[i].pc = "rejected" /\ i + 1 \in DOMAIN ops /\ Settled(ops[i + 1])
    /\ \E d \in DOMAIN handlers : handlers[d].pc = "alerted"

\* C4: running = true is only ever observed together with the session's
\* subscriptions, its opened connection and its installed teardown function.
C4_RunningOnlyWhenWired ==
    running =>
        /\ unsubscribeBotLog # 0 /\ unsubscribeBotVisit # 0
        /\ stopFn # 0
        /\ ops[stopFn].conn # "none"

\* C5: at the step in which a stop() call resolves, running and connected are
\* false, no log or visit listener is subscribed and no tick timer is scheduled.
C5_StopPostcondition ==
    [][\A i \in DOMAIN ops :
          (ops[i].kind = "stop" /\ ops[i].pc = "stopAwait" /\ ops'[i].pc = "resolved")
          => /\ ~running' /\ ~connected'
             /\ logListeners' = {} /\ visitListeners' = {}
             /\ userPollTimer' = 0]_vars

\* a stop() has resolved after tearing down a logged-in session whose connection
\* has not finished closing
C5_Witness ==
    \E s, i \in DOMAIN ops :
        /\ s < i
        /\ ops[s].conn = "closing" /\ ops[s].login = "done"
        /\ ops[i].kind = "stop" /\ ops[i].pc = "resolved"
        /\ \A j \in DOMAIN ops : j > s => ops[j].kind = "stop"

\* C6: a stop() whose body begins while running is false leaves the status
\* snapshot as it was and tears down no session.
C6_StopWhenStoppedIsNoOp ==
    [][\A i \in DOMAIN ops :
          (ops[i].kind = "stop" /\ ops[i].pc = "pending" /\ ops'[i].pc # "pending" /\ ~running)
          => /\ running' = running /\ connected' = connected /\ lastError' = lastError
             /\ stopFn = 0]_vars

\* C7: at most one connection opened by the supervisor is open at any time.
C7_AtMostOneSession == Cardinality(OpenSessions) <= 1

\* C8: a stop() whose session teardown threw still resolves, and at that step
\* running and connected are false, the listeners are unsubscribed, the tick
\* timer is cancelled and the teardown function is cleared.
C8_TeardownErrorSwallowed ==
    [][\A i \in DOMAIN ops :
          (ops[i].kind = "stop" /\ ops[i].pc = "stopAwait" /\ ops[i].threw /\ ops'[i].pc # "stopAwait")
          => /\ ops'[i].pc = "resolved"
             /\ ~running' /\ ~connected'
             /\ logListeners' = {} /\ visitListeners' = {}
             /\ unsubscribeBotLog' = 0 /\ unsubscribeBotVisit' = 0
             /\ userPollTimer' = 0
             /\ stopFn' = 0]_vars

\* the stop() chained right behind a completed start has resolved although the
\* teardown threw (the connection was left open)
C8_Witness ==
    \E s \in DOMAIN ops :
        /\ s + 1 \in DOMAIN ops
        /\ ops[s].kind = "start" /\ ops[s].pc = "resolved" /\ ops[s].conn = "open"
        /\ ops[s + 1].kind = "stop" /\ ops[s + 1].pc = "resolved"
        /\ stopFn = 0 /\ ~running

\* C9: for a category whose latch was tripped in a session, once the handling
\* is over the handler has invoked stop() exactly once (and no second handler of
\* the category has passed the latch in that session).
C9_ExactlyOneStop ==
    /\ \A d \in DOMAIN handlers : handlers[d].pc # "handlerAppend" => StopCalled(d)
    /\ \A d, e \in DOMAIN handlers :
          (d # e /\ handlers[d].cat = handlers[e].cat) => handlers[d].epoch # handlers[e].epoch

\* C10: each latch is false at the step in which a session starts running, and a
\* tripped latch goes back to false only in the latch reset of a start.
C10_LatchLifetime ==
    [][/\ (running' /\ ~running) => latch' = AllClear
       /\ \A c \in Cats :
            (latch[c] /\ ~latch'[c]) =>
                \E i \in DOMAIN ops :
                    ops[i].kind = "start" /\ ops[i].pc = "startStopAwait" /\ ops'[i].pc = "config"]_vars

\* the same signature has tripped its latch in two sessions, and the latch
\* tripped in the first stayed tripped over the stop in between
C10_Witness ==
    \E d, e \in DOMAIN handlers :
        /\ handlers[d].cat = handlers[e].cat
        /\ handlers[d].epoch < handlers[e].epoch
        /\ handlers[d].pc = "alerted"

\* C11: a fatal handling invokes stop() before anything else can end it, and
\* the alert is attempted only once that stop() has completed: a handling that
\* is over has chained a stop call, and one that reached the alert has a stop
\* call that resolved.
C11_StopBeforeAlert ==
    \A d \in DOMAIN handlers :
        /\ handlers[d].pc = "alerted" =>
              (handlers[d].op \in DOMAIN ops /\ ops[handlers[d].op].pc = "resolved")
        /\ handlers[d].pc = "rejected" => handlers[d].op \in DOMAIN ops

\* C12 (FatalSpec): once a fatal signature has tripped its latch in a running
\* session, the status eventually shows running = false with lastError populated.
C12_FatalBecomesVisible ==
    \A c \in Cats : (latch[c] /\ running) ~> (~running /\ lastError # "none")

\* C13: no fatal handling ends in a rejection that nothing handles.
C13_NoUnhandledRejection ==
    \A d \in DOMAIN handlers : handlers[d].pc # "rejected"

\* C14 (AlertSpec): a sendSmtpAlert call makes no delivery attempt when alerting
\* is disabled, when host, port, from or to is missing or when user or password
\* is missing; with a complete configuration it makes exactly one attempt, also
\* after that attempt or a log append has failed.
CompleteSmtp(c) ==
    /\ c.defined /\ c.enabled
    /\ c.host # "" /\ c.port # 0 /\ c.from # "" /\ c.to # ""
    /\ c.user # "" /\ c.pass # ""

C14_AtMostOneAttempt ==
    /\ attempts <= 1
    /\ ~CompleteSmtp(smtp) => attempts = 0
    /\ (CompleteSmtp(smtp) /\ alertPc # "getSecret") => attempts = 1

\* the second call read a complete configuration, made its one attempt, and is
\* in its catch block because the attempt (or the log append after it) failed
C14_Witness ==
    /\ alertPc = "appendFailed"
    /\ attempts = 1
    /\ CompleteSmtp(smtp)
    /\ alertCalls = MaxAlertCalls

\* C15 (StatusSpec): getStatus() returns a reference no one held before, to an
\* object equal field by field to the live status, and changes neither the live
\* object nor which object is live; and a step that changes an object getStatus
\* returned (a caller's assignment) changes neither the live status object nor
\* any other returned object, so no later getStatus() result either.
C15_FreshShallowCopy ==
    [][/\ \A r \in snapshots' \ snapshots :
             /\ r \notin DOMAIN objects
             /\ objects'[r] = objects[statusObj]
             /\ statusObj' = statusObj
             /\ \A q \in DOMAIN objects : objects'[q] = objects[q]
       /\ \A r \in snapshots :
             objects'[r] # objects[r] =>
                 /\ statusObj' = statusObj
                 /\ \A q \in DOMAIN objects \ {r} : objects'[q] = objects[q]]_vars

\* a caller has overwritten both fields of the object it got while the live
\* status still holds what was copied, and a later getStatus() returned that
C15_Witness ==
    \E r, q \in snapshots :
        /\ r < q
        /\ statusObj < r
        /\ objects[r].running # objects[statusObj].running
        /\ objects[r].lastError # objects[statusObj].lastError
        /\ objects[q] = objects[statusObj]

\* C16 (VisitSpec): the visit log never holds more than 400 records; a record
\* appended to a log of 400 evicts the first (oldest) one and only that one,
\* the others keep their order; and 401 sequential records leave the last 400.
C16_VisitRingBuffer ==
    [][/\ Len(visits') <= VisitCap
       /\ visits' # visits =>
             /\ Len(visits') > 0
             /\ visits' = Append(IF Len(visits) = VisitCap THEN Tail(visits) ELSE visits,
                                 visits'[Len(visits')])
       /\ (emitted' = VisitCap + 1 /\ redelivered' = 0) =>
             /\ Len(visits') = VisitCap
             /\ \A k \in 1..VisitCap : visits'[k].ts = k + 1]_vars

\* 401 sequential records have been appended: the log is full and its oldest
\* record is the second one
C16_Witness ==
    /\ emitted = VisitCap + 1
    /\ redelivered = 0
    /\ Len(visits) = VisitCap
    /\ visits[1].ts = 2

\* C17 (VisitSpec): the ids of the records in the visit log are pairwise distinct.
C17_VisitIdsDistinct ==
    \A i, j \in DOMAIN visits : i # j => visits[i].id # visits[j].id

\* C18 (BagIndexSpec): a getBagIndex call returns the object built before, and
\* builds nothing, exactly when an index exists and the three timestamps equal
\* the stored key; otherwise it builds a new object, returns it and stores the
\* current triple as the key.
C18_RebuildIffKeyDiffers ==
    [][indexCalls' # indexCalls =>
          IF /\ bagIndex # 0
             /\ bagIndexMeta.defined
             /\ \A f \in SourceFiles : bagIndexMeta[f] = mtime[f]
            THEN /\ built' = built
                 /\ bagIndex' = bagIndex
                 /\ bagIndexMeta' = bagIndexMeta
                 /\ returned' = bagIndex
            ELSE /\ built' = built + 1
                 /\ bagIndex' = built'
                 /\ returned' = built'
                 /\ bagIndex' # bagIndex
                 /\ bagIndexMeta'.defined
                 /\ \A f \in SourceFiles : bagIndexMeta'[f] = mtime[f]]_vars

\* three calls: the first built the index, one found the key unchanged and
\* returned the same object, and one rebuilt because a timestamp had changed;
\* the key now stored differs from the all-zero triple in goods.txt alone
C18_Witness ==
    /\ indexCalls = 3
    /\ built = 2
    /\ returned = 2
    /\ bagIndexMeta.defined
    /\ bagIndexMeta.goodsMtimeMs = 1
    /\ bagIndexMeta.plantMtimeMs = 0
    /\ bagIndexMeta.shopMtimeMs = 0
    /\ mtime = [f \in SourceFiles |-> IF f = "goodsMtimeMs" THEN 1 ELSE 0]

\* the level the caller reported, brought into [1, maxLevel]
ClampedLevel == Max(1, Min(level, Len(starts) - 1))
\* totalExp lies in the bracket of level L and both ends of the bracket are set
InBracket(L) ==
    /\ starts # << >>
    /\ starts[L] # NaN /\ starts[L + 1] # NaN
    /\ starts[L] <= totalExp /\ totalExp < starts[L + 1]
\* the levels from 1 to maxLevel whose threshold is set and not above totalExp
ReachedLevels == {L \in 1..(Len(starts) - 1) : starts[L] # NaN /\ starts[L] <= totalExp}
HighestReached ==
    IF ReachedLevels = {} THEN 1
    ELSE CHOOSE L \in ReachedLevels : \A K \in ReachedLevels : K <= L

\* C19 (ExpSpec): when totalExp lies in the bracket of the clamped level, the
\* result is {current: totalExp - starts[level], needed: starts[level+1] - starts[level]}.
C19_FastPath ==
    (expPc = "computed" /\ InBracket(ClampedLevel)) =>
        expProgress = [null |-> FALSE,
                       current |-> totalExp - starts[ClampedLevel],
                       needed |-> starts[ClampedLevel + 1] - starts[ClampedLevel]]

\* the example: starts = [_, 0, 100, 250, 500, 900], (3, 260) gives
\* {current: 10, needed: 250}
C19_Witness ==
    /\ expPc = "computed"
    /\ starts = ExampleStarts
    /\ level = 3
    /\ totalExp = 260
    /\ expProgress = [null |-> FALSE, current |-> 10, needed |-> 250]

\* C20 (ExpSpec): when totalExp does not lie in the bracket of the clamped
\* level, the result is the progress within the bracket of the highest level
\* whose threshold is set and not above totalExp (where that bracket has both
\* ends set), in tables with unset entries too.
C20_FallbackFindsHighest ==
    (/\ expPc = "computed"
     /\ starts # << >>
     /\ totalExp >= 0
     /\ ~InBracket(ClampedLevel)
     /\ starts[HighestReached] # NaN
     /\ starts[HighestReached + 1] # NaN)
    => expProgress = [null |-> FALSE,
                      current |-> Max(0, Min(starts[HighestReached + 1] - starts[HighestReached],
                                             totalExp - starts[HighestReached])),
                      needed |-> starts[HighestReached + 1] - starts[HighestReached]]

\* C21 (ExpSpec): the result is null when totalExp is negative and when the
\* table is empty or lacks level 1 or level 2; and a result that is not null is
\* the progress within a bracket of the table whose two thresholds are set and
\* whose width is positive.
C21_NullCases ==
    expPc = "computed" =>
        /\ totalExp < 0 => expProgress.null
        /\ (roleLevels = << >> \/ roleLevels[1] = NaN \/ roleLevels[2] = NaN) => expProgress.null
        /\ ~expProgress.null =>
              \E L \in 1..(Len(starts) - 1) :
                  /\ starts[L] # NaN /\ starts[L + 1] # NaN
                  /\ expProgress.needed = starts[L + 1] - starts[L]
                  /\ expProgress.needed > 0
                  /\ expProgress.current = Max(0, Min(expProgress.needed, totalExp - starts[L]))

\* the example: (1, -5) on the full table gives null
C21_Witness ==
    /\ expPc = "computed"
    /\ roleLevels = ExampleStarts
    /\ level = 1
    /\ totalExp = -5
    /\ expProgress = NullProgress

\* C22 (EntrySpec): an entry is the currency if its id is 1001, else a seed
\* with the seed price if its id has a seed price (also when the id is a fruit
\* id as well), else a fruit if its id is a fruit id, else a generic item; a
\* fruit is priced exactly when its seed's price and a positive yield count are
\* known, at the multiple of 0.0001 nearest to price / count, and currency and
\* generic items carry no price.
C22_EntryClassification ==
    entryPc = "mapped" =>
        LET seedKnown == entryId \in DOMAIN index.seedPrice
            fruitKnown == entryId \in DOMAIN index.fruit
        IN  /\ bagItem.kind = (IF entryId = 1001 THEN "gold"
                               ELSE IF seedKnown THEN "seed"
                               ELSE IF fruitKnown THEN "fruit" ELSE "item")
            /\ bagItem.kind \in {"gold", "item"} => ~bagItem.unit.priced
            /\ bagItem.kind = "seed" =>
                  bagItem.unit = [priced |-> TRUE, e4 |-> 10000 * index.seedPrice[entryId]]
            /\ bagItem.kind = "fruit" =>
                  LET meta == index.fruit[entryId]
                      known == meta.seedId \in DOMAIN index.seedPrice /\ meta.fruitCount > 0
                  IN  /\ bagItem.unit.priced = known
                      /\ known =>
                            LET d == bagItem.unit.e4 * meta.fruitCount
                                     - 10000 * index.seedPrice[meta.seedId]
                            IN  2 * d <= meta.fruitCount /\ -(2 * d) <= meta.fruitCount

\* id 2 is in both maps and was mapped to a seed with the seed price 20,
\* while as a fruit of seed 2 with yield 3 it would have been priced 6.6667
C22_Witness ==
    /\ entryPc = "mapped"
    /\ entryId = 2
    /\ 2 \in DOMAIN index.seedPrice /\ index.seedPrice[2] = 20
    /\ 2 \in DOMAIN index.fruit /\ index.fruit[2] = [fruitCount |-> 3, seedId |-> 2]
    /\ bagItem = [kind |-> "seed", unit |-> [priced |-> TRUE, e4 |-> 200000]]
    /\ fruitUnit(index, index.fruit[2]).e4 = 66667

\* C23 (ConfigSpec): set() rejects an update with an interval range whose min
\* exceeds its max or with a bound below 1, and one that enables alerting with
\* a blank host, from or to or without a port; the rejected call leaves the
\* file, the session, CONFIG and what get() returns as they were.
InvalidUpdate(doc) ==
    \/ doc.selfIntervalSecMin > doc.selfIntervalSecMax
    \/ doc.friendIntervalSecMin > doc.friendIntervalSecMax
    \/ \E f \in IntervalFields : doc[f] < 1
    \/ /\ doc.smtp.defined /\ doc.smtp.enabled
       /\ \/ doc.smtp.host \in {"", " "}
          \/ doc.smtp.port = 0
          \/ doc.smtp.from \in {"", " "}
          \/ doc.smtp.to \in {"", " "}
C23_InvalidUpdateRejected ==
    [][(cfgPc = "idle" /\ cfgPc' \notin {"idle", "applied", "got"} /\ InvalidUpdate(next')) =>
          /\ cfgPc' = "rejected"
          /\ file' = file
          /\ get(file') = get(file)
          /\ <<applied, botConfig, session, cfgLog>>' = <<applied, botConfig, session, cfgLog>>]_vars

\* an update that enables alerting with a blank host was rejected
C23_Witness ==
    /\ cfgPc = "rejected"
    /\ next.selfIntervalSecMin = 1 /\ next.friendIntervalSecMin = 1
    /\ next.smtp.defined /\ next.smtp.enabled
    /\ next.smtp.host = " " /\ next.smtp.port = 465
    /\ next.smtp.from = "bot@host" /\ next.smtp.to = "admin@host"
    /\ LegacyFields \subseteq DOMAIN file

\* C24 (ConfigSpec): get() of a legacy document {selfIntervalSec: a,
\* friendIntervalSec: b, platform} returns the ranges a..a and b..b, and the
\* document a successful set() leaves in the file has the current fields, with
\* the ranges of the update, and no legacy interval field.
C24_LegacyMigration ==
    /\ (cfgPc = "got" /\ LegacyFields \subseteq DOMAIN file) =>
          /\ got.selfIntervalSecMin = file.selfIntervalSec
          /\ got.selfIntervalSecMax = file.selfIntervalSec
          /\ got.friendIntervalSecMin = file.friendIntervalSec
          /\ got.friendIntervalSecMax = file.friendIntervalSec
          /\ got.platform = file.platform
    /\ cfgPc = "saved" =>
          /\ DOMAIN file \cap {"selfIntervalSec", "friendIntervalSec"} = {}
          /\ IntervalFields \subseteq DOMAIN file
          /\ \A f \in IntervalFields : file[f] = next[f]

\* the legacy document with the intervals 2 and 3 was read as 2..2 and 3..3
C24_Witness ==
    /\ cfgPc = "got"
    /\ file = [selfIntervalSec |-> 2, friendIntervalSec |-> 3, platform |-> "qq"]
    /\ got.selfIntervalSecMin = 2 /\ got.selfIntervalSecMax = 2
    /\ got.friendIntervalSecMin = 3 /\ got.friendIntervalSecMax = 3

StrategiesInEffect ==
    {st \in {"lowest", "latest", "fixed"} :
        \/ st = "lowest" /\ botConfig.forceLowestLevelCrop
        \/ st = "latest" /\ botConfig.forceLatestLevelCrop
        \/ st = "fixed" /\ botConfig.fixedSeedId # 0}
C26_StrategiesExclusive ==
    cfgPc = "saved" => Cardinality(StrategiesInEffect) <= 1

\* C27 (TickSpec): in an execution of stopInternal, running and connected are
\* false when any other teardown statement runs; the listeners are unsubscribed
\* and the tick timer is cancelled when stopFn is called; and when the
\* execution ends the bag view is null and stopFn is cleared.
C27_StopOrder ==
    [][call.pc \in {"head", "tail"} =>
       /\ (\/ logListeners' # logListeners
            \/ unsubscribeBotLog' # unsubscribeBotLog
            \/ visitListeners' # visitListeners
            \/ unsubscribeBotVisit' # unsubscribeBotVisit
            \/ (userPollTimer' = 0 /\ userPollTimer # 0)
            \/ (stopFn' = 0 /\ stopFn # 0)
            \/ (call.pc = "head" /\ call'.pc = "tail")) =>
              (~running /\ ~connected)
       /\ (call.pc = "head" /\ call'.pc = "tail") =>
              /\ unsubscribeBotLog = 0 /\ logListeners = {}
              /\ unsubscribeBotVisit = 0 /\ visitListeners = {}
              /\ userPollTimer = 0
       /\ (call.pc = "tail" /\ call'.pc # "tail") =>
              /\ bag' = 0 /\ stopFn' = 0
              /\ ~running' /\ ~connected' /\ userPollTimer' = 0]_vars

\* stop() of a session whose timer ticked and whose bag view was written has
\* ended: everything is torn down
C27_Witness ==
    /\ call = NoCall
    /\ sessionNo = 1 /\ loginPc = <<"done">>
    /\ polls > 0 /\ fetched = "ok"
    /\ ~running /\ ~connected /\ userPollTimer = 0 /\ stopFn = 0 /\ bag = 0
    /\ logListeners = {} /\ visitListeners = {}

\* C28 (TickSpec): at most one getBag() of refreshBagView is pending, and
\* bagPollInFlight is set exactly while one is: a refresh called meanwhile
\* starts no second one, and the marker is cleared when the pending one settles,
\* fulfilled or rejected.
C28_OneRefreshInFlight ==
    /\ Len(fetches) <= 1
    /\ bagPollInFlight <=> Len(fetches) = 1

\* after a refresh that failed, the next one is in flight
C28_Witness ==
    /\ fetched = "failed"
    /\ bagPollInFlight /\ Len(fetches) = 1
    /\ polls = 2

\* C29 (TickSpec): the bag view is null whenever no session runs and no call
\* executes, and a bag view that is set was written by a refresh started in
\* the newest session.
C29_BagViewOfSession ==
    /\ (call = NoCall /\ ~running) => bag = 0
    /\ bag # 0 => bag = sessionNo

\* C30 (TickSpec): poll() runs only while running is true.
C30_TickChecksRunning ==
    [][polls' # polls => running]_vars
\* C31 (ExpSpec): every result that is not null has needed > 0 and
\* 0 <= current <= needed, whatever the table (sorted or not, with unset
\* entries or without), the reported level and totalExp.
C31_ProgressWithinBracket ==
    (expPc = "computed" /\ ~expProgress.null) =>
        /\ expProgress.needed > 0
        /\ 0 <= expProgress.current
        /\ expProgress.current <= expProgress.needed

\* a table whose level 1 starts at 100, asked for (1, 80): the raw difference
\* is -20 and the result is {current: 0, needed: 150}
C31_Witness ==
    /\ expPc = "computed"
    /\ starts = <<100, 250, 500, 900, 1400, NaN>>
    /\ level = 1
    /\ totalExp = 80
    /\ expProgress = [null |-> FALSE, current |-> 0, needed |-> 150]

\* C32 (ExpSpec): for a table and a totalExp, the result is the same for every
\* reported level.
C32_LevelNeverMatters ==
    expPc = "computed" =>
        \A lv \in Levels : computeExpProgress(starts, lv, totalExp) = expProgress

\* the sum of the counts of the entries of v with key k
RECURSIVE countOf(_, _)
countOf(v, k) ==
    IF v = << >> THEN 0
    ELSE (IF bagKey(Head(v)) = k THEN Head(v).count ELSE 0) + countOf(Tail(v), k)

\* v holds one entry per kind + id + unit price of the valid raw entries, with
\* the summed count, in the order of kind rank and then id
MergedAndSorted(v) ==
    LET valid == mapItems(ViewIndex, rawItems)
    IN  /\ \A i, j \in 1..Len(v) : i < j =>
              /\ bagKey(v[i]) # bagKey(v[j])
              /\ \/ kindRank[v[i].kind] < kindRank[v[j].kind]
                 \/ kindRank[v[i].kind] = kindRank[v[j].kind] /\ v[i].id <= v[j].id
        /\ {bagKey(v[i]) : i \in 1..Len(v)} = {bagKey(valid[i]) : i \in 1..Len(valid)}
        /\ \A i \in 1..Len(v) : v[i].count = countOf(valid, bagKey(v[i]))

\* C33 (ViewSpec): the bag view (status.bag.items, or else the list the bag page
\* renders from it) holds one entry per kind + id + unit price with the summed
\* count, ordered by kind rank (currency, seed, fruit, item) and then by id.
C33_BagViewMergedAndSorted ==
    viewPc = "rendered" => MergedAndSorted(bagItems) \/ MergedAndSorted(pageList)

\* the passwords a stored configuration can hold, and the one a document holds
\* ("": none)
StoredPasswords == {"old", "secret", "other"}
passOf(doc) == IF "smtp" \in DOMAIN doc THEN doc.smtp.pass ELSE ""

\* C39 (ConfigSpec): what get() and set() return is the same for every other
\* non-empty stored password (only passSet tells that there is one), and a
\* set() without smtp, or with a blank smtp password, leaves the stored
\* password as it was.
C39_PasswordStaysPrivate ==
    [][/\ (cfgPc' \in {"got", "saved"} /\ passOf(file') # "") =>
             \A p \in StoredPasswords : get([file' EXCEPT !.smtp.pass = p]) = got'
       /\ (cfgPc = "write" /\ cfgPc' = "saved"
             /\ (~next.smtp.defined \/ trim(next.smtp.pass) = "")) =>
             passOf(file') = passOf(file)]_vars

\* set() with a blank password on a file holding "old": the file still holds
\* "old" and the returned configuration says passSet
C39_Witness ==
    /\ cfgPc = "saved"
    /\ next.smtp.defined /\ next.smtp.pass = " "
    /\ file.smtp.pass = "old"
    /\ got.smtp.passSet
    /\ "pass" \notin DOMAIN got.smtp

\* the sockets of the hook that are connecting or open (close() was not called
\* on them and their connection has not ended)
LiveSockets == {i \in DOMAIN sockets : sockets[i] \in {"connecting", "open"}}

\* C40 (WsSpec): the hook has at most one socket connecting or open and at most
\* one reconnect timeout pending, and while the token is cleared or the
\* component unmounted no step constructs a WebSocket.
C40_OneSocketOneTimer ==
    [][/\ Cardinality(LiveSockets') <= 1
       /\ Cardinality(timers') <= 1
       /\ (effect \in {"idle", "unmounted"} /\ effect' = effect) =>
             Len(sockets') = Len(sockets)]_vars

\* the start call whose session is the current one (the last to reset the latches)
CurrentSession == epoch

\* C34 (Spec): the close event of a connection opened by an earlier start call
\* changes neither the latches nor lastError nor connected and begins no fatal
\* handling, and the stop() chained by a fatal handler of an earlier session
\* does not stop the session that is running when its turn comes.
C34_FailuresStayInTheirSession ==
    [][/\ \A s \in DOMAIN ops :
             (ops[s].conn # "closed" /\ ops'[s].conn = "closed" /\ s # CurrentSession) =>
                 UNCHANGED <<latch, lastError, connected, handlers>>
       /\ \A d \in DOMAIN handlers :
             (/\ handlers[d].op # 0
              /\ ops[handlers[d].op].pc = "pending"
              /\ ops'[handlers[d].op].pc # "pending"
              /\ handlers[d].epoch # CurrentSession) => running' = running]_vars

\* C35 (Spec): connected is true only while running is true.
C35_ConnectedOnlyWhileRunning == connected => running

\* C36 (Spec): while running is false and every chained call has settled, no
\* tick timer is scheduled (the login callback starts the sub-loops in the step
\* in which it schedules the timer).
C36_NothingScheduledWhenStopped ==
    (~running /\ \A i \in DOMAIN ops : Settled(ops[i])) => userPollTimer = 0

\* C37 (Spec): the step in which a start call rejects leaves running false, no
\* log or visit listener subscribed, and no connection opened by the call
\* without its stopFn installed.
C37_FailedStartIsAtomic ==
    [][\A i \in DOMAIN ops :
          (ops[i].kind = "start" /\ ops[i].pc # "rejected" /\ ops'[i].pc = "rejected") =>
              /\ ~running'
              /\ logListeners' = {} /\ visitListeners' = {}
              /\ ops'[i].conn = "open" => stopFn' = i]_vars

\* C38 (Spec): at most one log listener and at most one visit listener is
\* subscribed, and none while running is false.
C38_AtMostOneListener ==
    /\ Cardinality(logListeners) <= 1
    /\ Cardinality(visitListeners) <= 1
    /\ ~running => logListeners = {} /\ visitListeners = {}

\* a second start has subscribed its listeners after the first start's were
\* subscribed and removed: only the second start's are there
C38_Witness ==
    /\ Len(ops) >= 2
    /\ ops[1].kind = "start" /\ ops[1].pc = "resolved"
    /\ ops[2].kind = "start" /\ ops[2].pc = "resolved"
    /\ running
    /\ logListeners = {2} /\ visitListeners = {2}

====
